---- MODULE Spec2Model ----
(***************************************************************************)
(* Guided hierarchical traversal of a legal document tree: the document    *)
(* loader and validator, the level-synchronous traversal driver, the batch *)
(* oracle client with its identifier reconciler, and the single-slot       *)
(* result store.                                                           *)
(*                                                                         *)
(* Strings that the code inspects character by character (node ids) are    *)
(* sequences of one-character strings.  Scores are hundredths (0..100).    *)
(***************************************************************************)
EXTENDS Integers, Sequences, FiniteSets, TLC

\* ------------------------------------------------------------------------
\* Characters and strings
\* ------------------------------------------------------------------------

UpperChars == <<"A","B","C","D","E","F","G","H","I","J","K","L","M","N","O","P","Q","R","S","T","U","V","W","X","Y","Z">>

LowerChars == <<"a","b","c","d","e","f","g","h","i","j","k","l","m","n","o","p","q","r","s","t","u","v","w","x","y","z">>

DigitChars == {"0","1","2","3","4","5","6","7","8","9"}

\* \s of the regular expressions
SpaceChars == {" ", "\t", "\n", "\r"}

Range(s) == { s[i] : i \in DOMAIN s }

Min2(a, b) == IF a <= b THEN a ELSE b

Max2(a, b) == IF a >= b THEN a ELSE b

\* String.prototype.toLowerCase on one character
LowerChar(c) ==
    IF \E i \in DOMAIN UpperChars : UpperChars[i] = c
    THEN LowerChars[CHOOSE i \in DOMAIN UpperChars : UpperChars[i] = c]
    ELSE c

toLowerCase(s) == [i \in DOMAIN s |-> LowerChar(s[i])]

\* \w of the regular expressions: [A-Za-z0-9_]
IsWordChar(c) ==
    \/ c \in Range(UpperChars)
    \/ c \in Range(LowerChars)
    \/ c \in DigitChars
    \/ c = "_"

\* String.prototype.includes
includes(hay, needle) ==
    \E k \in 0..(Len(hay) - Len(needle)) :
        \A i \in 1..Len(needle) : hay[k + i] = needle[i]

\* String.prototype.startsWith
startsWith(s, prefix) ==
    /\ Len(prefix) <= Len(s)
    /\ \A i \in 1..Len(prefix) : s[i] = prefix[i]

\* String.prototype.trim
RECURSIVE trimLeft(_)
trimLeft(s) ==
    IF s # <<>> /\ Head(s) \in SpaceChars THEN trimLeft(Tail(s)) ELSE s

RECURSIVE trimRight(_)
trimRight(s) ==
    IF s # <<>> /\ s[Len(s)] \in SpaceChars
    THEN trimRight(SubSeq(s, 1, Len(s) - 1))
    ELSE s

trim(s) == trimRight(trimLeft(s))

\* the capture of /^(\d+)/, or <<>> when the string has no leading digit
RECURSIVE leadingDigits(_)
leadingDigits(s) ==
    IF s # <<>> /\ Head(s) \in DigitChars
    THEN <<Head(s)>> \o leadingDigits(Tail(s))
    ELSE <<>>

\* /^\d+$/.test(s)
allDigits(s) == s # <<>> /\ \A i \in DOMAIN s : s[i] \in DigitChars

\* the maximal runs of characters satisfying \w, left to right: what is left
\* of s.replace(/[^\w\s]/g, ' ').split(/\s+/) once the empty pieces are dropped
RECURSIVE wordRuns(_, _)
wordRuns(s, cur) ==
    IF s = <<>>
    THEN IF cur = <<>> THEN <<>> ELSE <<cur>>
    ELSE IF IsWordChar(Head(s))
         THEN wordRuns(Tail(s), Append(cur, Head(s)))
         ELSE (IF cur = <<>> THEN <<>> ELSE <<cur>>) \o wordRuns(Tail(s), <<>>)

commonWords ==
    { <<"t","h","e">>, <<"a">>, <<"a","n">>, <<"a","n","d">>, <<"o","r">>,
      <<"o","f">>, <<"t","o">>, <<"i","n">>, <<"f","o","r">>,
      <<"w","i","t","h">>, <<"b","y">>, <<"f","r","o","m">>, <<"a","s">>,
      <<"a","t">>, <<"o","n">>, <<"i","s">>, <<"a","r","e">>, <<"b","e">>,
      <<"b","e","e","n">>, <<"b","e","i","n","g">>, <<"h","a","v","e">>,
      <<"h","a","s">>, <<"h","a","d">>, <<"d","o">>, <<"d","o","e","s">>,
      <<"d","i","d">>, <<"w","i","l","l">>, <<"w","o","u","l","d">>,
      <<"c","o","u","l","d">>, <<"s","h","o","u","l","d">>, <<"m","a","y">>,
      <<"m","i","g","h","t">>, <<"c","a","n">>, <<"m","u","s","t">> }

\* ------------------------------------------------------------------------
\* Identifier reconciler
\* ------------------------------------------------------------------------

\* one row of the distance matrix: matrix[j][0..Len(str1)] from matrix[j-1]
RECURSIVE levenshteinRow(_, _, _, _)
levenshteinRow(prev, str1, ch, acc) ==
    IF Len(acc) = Len(str1) + 1
    THEN acc
    ELSE LET i == Len(acc)
             indicator == IF str1[i] = ch THEN 0 ELSE 1
             cell == Min2(Min2(acc[i] + 1, prev[i + 1] + 1), prev[i] + indicator)
         IN  levenshteinRow(prev, str1, ch, Append(acc, cell))

RECURSIVE levenshteinRows(_, _, _, _)
levenshteinRows(prev, str1, str2, j) ==
    IF j > Len(str2)
    THEN prev
    ELSE levenshteinRows(levenshteinRow(prev, str1, str2[j], <<j>>), str1, str2, j + 1)

levenshteinDistance(str1, str2) ==
    LET row0 == [i \in 1..(Len(str1) + 1) |-> i - 1]
    IN  levenshteinRows(row0, str1, str2, 1)[Len(str1) + 1]

\* the keyWords of extractNodeIdPatterns
keyWordsOf(nodeId) ==
    SelectSeq(wordRuns(toLowerCase(nodeId), <<>>),
              LAMBDA w : Len(w) > 2 /\ w \notin commonWords)

extractNodeIdPatterns(nodeId) ==
    [number   |-> leadingDigits(nodeId),
     keyWords |-> keyWordsOf(nodeId)]

matchesNumberPrefix(expectedNodeId, receivedNodeId) ==
    LET expectedNumber == leadingDigits(expectedNodeId)
        receivedNumber == leadingDigits(receivedNodeId)
    IN  \/ /\ expectedNumber # <<>>
           /\ receivedNumber # <<>>
           /\ expectedNumber = receivedNumber
        \/ /\ allDigits(trim(receivedNodeId))
           /\ startsWith(expectedNodeId, trim(receivedNodeId) \o <<" ">>)

matchesKeyPhrases(expectedNodeId, receivedNodeId, expectedPatterns) ==
    LET receivedPatterns == extractNodeIdPatterns(receivedNodeId)
        overlaps(word) ==
            \E k \in DOMAIN receivedPatterns.keyWords :
                LET rWord == receivedPatterns.keyWords[k]
                IN  \/ includes(rWord, word)
                    \/ includes(word, rWord)
                    \/ levenshteinDistance(word, rWord) <= 1
        commonKeyWords == SelectSeq(expectedPatterns.keyWords, overlaps)
        \* overlapRatio >= 0.5 with overlapRatio = common / max(expected, 1)
        ratioOk == 2 * Len(commonKeyWords) >= Max2(Len(expectedPatterns.keyWords), 1)
    IN  ratioOk \/ Len(commonKeyWords) >= 2

\* str.toLowerCase().replace(/[^\w]/g, '')
normalize(str) == SelectSeq(toLowerCase(str), IsWordChar)

matchesFuzzyString(expectedNodeId, receivedNodeId) ==
    LET normalizedExpected == normalize(expectedNodeId)
        normalizedReceived == normalize(receivedNodeId)
        distance  == levenshteinDistance(normalizedExpected, normalizedReceived)
        maxLength == Max2(Len(normalizedExpected), Len(normalizedReceived))
    IN  IF Len(normalizedReceived) >= 5 /\ includes(normalizedExpected, normalizedReceived)
        THEN TRUE
        ELSE IF Len(normalizedExpected) >= 5 /\ includes(normalizedReceived, normalizedExpected)
        THEN TRUE
        ELSE IF Len(normalizedExpected) <= 20 /\ Len(normalizedReceived) <= 20
        \* 1 - distance / maxLength >= 0.7; 0 / 0 is NaN and compares false
        THEN maxLength > 0 /\ 10 * distance <= 3 * maxLength
        ELSE FALSE


\* which strategy of findNodeEvaluationWithMapping's loop body accepts the
\* received id for the expected one, tried in the order of the code
strategyFor(expectedNodeId, receivedNodeId) ==
    IF matchesNumberPrefix(expectedNodeId, receivedNodeId)
    THEN "number"
    ELSE IF matchesKeyPhrases(expectedNodeId, receivedNodeId,
                              extractNodeIdPatterns(expectedNodeId))
    THEN "phrase"
    ELSE IF matchesFuzzyString(expectedNodeId, receivedNodeId)
    THEN "fuzzy"
    ELSE "none"

\* evaluations: the received entries; matched: the indices of the entries whose
\* _alreadyMatched flag is set.  The result names the entry (index 0: null),
\* the strategy that found it and the flags afterwards.
findNodeEvaluationWithMapping(expectedNodeId, evaluations, matched) ==
    LET exact == { i \in DOMAIN evaluations : evaluations[i].nodeId = expectedNodeId }
        loose == { i \in DOMAIN evaluations :
                      /\ i \notin matched
                      /\ strategyFor(expectedNodeId, evaluations[i].nodeId) # "none" }
        first(S) == CHOOSE i \in S : \A j \in S : i <= j
    IN  IF exact # {}
        THEN [index |-> first(exact), strategy |-> "exact", matched |-> matched]
        ELSE IF loose # {}
        THEN [index    |-> first(loose),
              strategy |-> strategyFor(expectedNodeId, evaluations[first(loose)].nodeId),
              matched  |-> matched \cup {first(loose)}]
        ELSE [index |-> 0, strategy |-> "none", matched |-> matched]

\* the loop of evaluateBatchChunk over the requested ids, in submission order:
\* the mapping result of every requested id
RECURSIVE mapRequested(_, _, _)
mapRequested(nodeIds, evaluations, matched) ==
    IF nodeIds = <<>>
    THEN <<>>
    ELSE LET m == findNodeEvaluationWithMapping(Head(nodeIds), evaluations, matched)
         IN  <<[index |-> m.index, strategy |-> m.strategy]>>
             \o mapRequested(Tail(nodeIds), evaluations, m.matched)

fallbackDecision(nodeId, reasoning, depth) ==
    [nodeId |-> nodeId, visited |-> FALSE, reasoning |-> reasoning,
     relevanceScore |-> 0, depth |-> depth]

mappedDecision(nodeId, nodeEvaluation, depth) ==
    [nodeId |-> nodeId, visited |-> nodeEvaluation.shouldExploreChildren,
     reasoning |-> nodeEvaluation.reasoning,
     relevanceScore |-> nodeEvaluation.relevanceScore, depth |-> depth]

\* the ids of the chunk that exist in the tree, in order
validNodes(nodeIds, tree) == SelectSeq(nodeIds, LAMBDA id : id \in DOMAIN tree.nodes)

\* a variant of the mapping loop that emits a decision only for the ids it
\* could map
decisionsForMappedOnly(nodeIds, evaluations, depth) ==
    LET mapping == mapRequested(nodeIds, evaluations, {})
        mapped  == SelectSeq([i \in DOMAIN nodeIds |-> i], LAMBDA i : mapping[i].index # 0)
    IN  [k \in DOMAIN mapped |->
            mappedDecision(nodeIds[mapped[k]], evaluations[mapping[mapped[k]].index], depth)]

\* a variant of the mapping loop that gives up the whole chunk when one id
\* could not be mapped
decisionsAllOrNothing(nodeIds, evaluations, depth) ==
    LET mapping == mapRequested(nodeIds, evaluations, {})
    IN  [i \in DOMAIN nodeIds |->
            IF \A j \in DOMAIN nodeIds : mapping[j].index # 0
            THEN mappedDecision(nodeIds[i], evaluations[mapping[i].index], depth)
            ELSE fallbackDecision(nodeIds[i],
                                  "Could not map to batch evaluation response", depth)]

\* the decisions built from a response of the oracle
decisionsFromResponse(nodeIds, evaluations, depth) ==
    LET mapping == mapRequested(nodeIds, evaluations, {})
    IN  [i \in DOMAIN nodeIds |->
            IF mapping[i].index # 0
            THEN mappedDecision(nodeIds[i], evaluations[mapping[i].index], depth)
            ELSE fallbackDecision(nodeIds[i],
                                  "Could not map to batch evaluation response", depth)]

\* the decisions of the catch block
decisionsOnFailure(nodeIds, depth) ==
    [i \in DOMAIN nodeIds |->
        fallbackDecision(nodeIds[i], "Error during batch evaluation", depth)]

\* outcome: what generateObject did, [threw |-> BOOLEAN, evaluations |-> entries];
\* it is not called when no id of the chunk is in the tree
evaluateBatchChunk(nodeIds, tree, outcome, depth) ==
    IF validNodes(nodeIds, tree) = <<>>
    THEN [i \in DOMAIN nodeIds |->
             fallbackDecision(nodeIds[i], "Node not found in document tree", depth)]
    ELSE IF outcome.threw
    THEN decisionsOnFailure(nodeIds, depth)
    ELSE decisionsFromResponse(nodeIds, outcome.evaluations, depth)

MAX_BATCH_SIZE == 5

\* the chunks of batchEvaluateNodes: consecutive slices of MAX_BATCH_SIZE ids,
\* or the whole list as one chunk when it is not longer than that
RECURSIVE slices(_, _)
slices(nodeIds, i) ==
    IF i > Len(nodeIds)
    THEN <<>>
    ELSE <<SubSeq(nodeIds, i, Min2(i + MAX_BATCH_SIZE - 1, Len(nodeIds)))>>
         \o slices(nodeIds, i + MAX_BATCH_SIZE)

chunksOf(nodeIds) ==
    IF Len(nodeIds) > MAX_BATCH_SIZE THEN slices(nodeIds, 1) ELSE <<nodeIds>>

\* ------------------------------------------------------------------------
\* Document trees
\* ------------------------------------------------------------------------

validateDocumentTree(tree) ==
    /\ Len(tree.rootNodes) # 0
    /\ \A k \in DOMAIN tree.rootNodes : tree.rootNodes[k] \in DOMAIN tree.nodes
    /\ \A id \in DOMAIN tree.nodes :
          \A k \in DOMAIN tree.nodes[id].children :
              tree.nodes[id].children[k] \in DOMAIN tree.nodes


\* node ids of the documents
idR == <<"c","h","1">>

idQ == <<"c","h","2">>

idA == <<"s","_","1">>

idB == <<"s","_","2">>

idC == <<"s","_","1","a">>

idX == <<"s","_","9">>

idY == <<"t","_","8">>

\* number of root nodes of the wide document
WideRoots == 6

WideDigits == <<"1","2","3","4","5","6","7","8","9">>

WideId(i) == <<"w", WideDigits[i]>>

LegalNode(id, children) == [id |-> id, children |-> children]

\* a proper tree: ch1 -> (s_1 -> (s_1a), s_2)
TreeDoc ==
    [nodes |-> [id \in {idR, idA, idB, idC} |->
                   LegalNode(id, CASE id = idR -> <<idA, idB>>
                                   [] id = idA -> <<idC>>
                                   [] OTHER    -> <<>>)],
     rootNodes |-> <<idR>>]

\* two roots that list the same child
SharedChildDoc ==
    [nodes |-> [id \in {idR, idQ, idA} |->
                   LegalNode(id, IF id = idA THEN <<>> ELSE <<idA>>)],
     rootNodes |-> <<idR, idQ>>]

\* a child that lists its parent and itself
CycleDoc ==
    [nodes |-> [id \in {idR, idA} |->
                   LegalNode(id, IF id = idR THEN <<idA>> ELSE <<idR, idA>>)],
     rootNodes |-> <<idR>>]

\* more root nodes than one chunk holds
WideDoc ==
    [nodes |-> [id \in { WideId(i) : i \in 1..WideRoots } |-> LegalNode(id, <<>>)],
     rootNodes |-> [i \in 1..WideRoots |-> WideId(i)]]

\* child ids that are no nodes: one beside a sibling that is, one alone
DanglingDoc ==
    [nodes |-> [id \in {idR, idA} |->
                   LegalNode(id, IF id = idR THEN <<idA, idX>> ELSE <<idY>>)],
     rootNodes |-> <<idR>>]

\* no root at all
RootlessDoc ==
    [nodes |-> [id \in {idA} |-> LegalNode(id, <<>>)],
     rootNodes |-> <<>>]

\* the data file cannot be read or parsed
UnreadableDoc == [unreadable |-> TRUE]

\* a numbered title as id: "28 abcde" -> (s_1, s_2)
id28 == <<"2","8"," ","a","b","c","d","e">>

NumberedDoc ==
    [nodes |-> [id \in {id28, idA, idB} |->
                   LegalNode(id, IF id = id28 THEN <<idA, idB>> ELSE <<>>)],
     rootNodes |-> <<id28>>]

NoTree == [none |-> TRUE]

Docs == {TreeDoc, SharedChildDoc, CycleDoc, WideDoc, DanglingDoc, RootlessDoc, UnreadableDoc}

\* ------------------------------------------------------------------------
\* Document transformer
\* ------------------------------------------------------------------------

DecimalDigits == <<"0","1","2","3","4","5","6","7","8","9">>

\* `${n}` for a number that is not negative
RECURSIVE toString(_)
toString(n) ==
    IF n < 10
    THEN <<DecimalDigits[n + 1]>>
    ELSE toString(n \div 10) \o <<DecimalDigits[(n % 10) + 1]>>

\* x.f || dflt for a field that holds a string when it is there
orElse(x, f, dflt) == IF f \in DOMAIN x /\ x[f] # <<>> THEN x[f] ELSE dflt

\* nodes[id] = node
withNode(nodes, id, node) ==
    [x \in DOMAIN nodes \cup {id} |-> IF x = id THEN node ELSE nodes[x]]

\* the do-while of generateUniqueId, entered with idCounters[baseId] = counter
RECURSIVE nextUniqueId(_, _, _)
nextUniqueId(nodes, baseId, counter) ==
    LET uniqueId == baseId \o <<"_">> \o toString(counter + 1)
    IN  IF uniqueId \in DOMAIN nodes
        THEN nextUniqueId(nodes, baseId, counter + 1)
        ELSE [id |-> uniqueId, idCounters |-> counter + 1]

\* a variant that hands out the base id whether it is taken or not
generateUniqueIdAsGiven(nodes, idCounters, baseId) ==
    [id |-> baseId, idCounters |-> idCounters]

\* idCounters[baseId] = counter
withCounter(idCounters, baseId, counter) ==
    [b \in DOMAIN idCounters \cup {baseId} |->
        IF b = baseId THEN counter ELSE idCounters[b]]

\* the unique id found, with the idCounters the search leaves
foundUniqueId(idCounters, baseId, found) ==
    [id |-> found.id, idCounters |-> withCounter(idCounters, baseId, found.idCounters)]

\* generateUniqueId with the nodes and idCounters it closes over; returns the
\* id and the idCounters it leaves
generateUniqueId(nodes, idCounters, baseId) ==
    IF baseId \notin DOMAIN nodes
    THEN [id |-> baseId, idCounters |-> idCounters]
    ELSE foundUniqueId(idCounters, baseId,
             nextUniqueId(nodes, baseId,
                 IF baseId \in DOMAIN idCounters THEN idCounters[baseId] ELSE 1))

\* child.id || `${nodeId}_child_${childIndex}`
baseChildId(child, nodeId, childIndex) ==
    orElse(child, "id", nodeId \o <<"_","c","h","i","l","d","_">> \o toString(childIndex))

\* the body of section.children.forEach once the child's id is made: acc
\* holds nodes, idCounters and the children pushed so far
agentChild(child, level, acc, unique) ==
    [nodes |-> withNode(acc.nodes, unique.id,
                   [id |-> unique.id,
                    content |-> IF "text_content" \in DOMAIN child
                                THEN child.text_content ELSE "",
                    level |-> level + 1,
                    children |-> <<>>]),
     idCounters |-> unique.idCounters,
     children |-> Append(acc.children, unique.id)]

\* section.children.forEach of the agent_results branch, from child k on
RECURSIVE agentChildren(_, _, _, _, _)
agentChildren(children, k, nodeId, level, acc) ==
    IF k > Len(children)
    THEN acc
    ELSE agentChildren(children, k + 1, nodeId, level,
             agentChild(children[k], level, acc,
                 generateUniqueId(acc.nodes, acc.idCounters,
                                  baseChildId(children[k], nodeId, k - 1))))

\* section.id || `section_${index}`
baseNodeId(section, index) ==
    orElse(section, "id", <<"s","e","c","t","i","o","n","_">> \o toString(index))

\* the node of a root section before its children are pushed
sectionNode(section, nodeId) ==
    [id |-> nodeId,
     content |-> IF "text_content" \in DOMAIN section THEN section.text_content ELSE "",
     level |-> 0,
     children |-> <<>>]

\* the root section's node with the children pushed: node.children.push acts
\* on the object held in nodes, unless a child has taken its place there
sectionDone(acc, node, done) ==
    [nodes |-> IF done.nodes[node.id] = node
               THEN [done.nodes EXCEPT ![node.id].children = done.children]
               ELSE done.nodes,
     rootNodes |-> Append(acc.rootNodes, node.id),
     idCounters |-> done.idCounters]

\* the body of root_sections.forEach once the section's id is made: acc
\* holds nodes, rootNodes and idCounters
agentSection(section, acc, unique, node) ==
    sectionDone(acc, node,
        IF "children" \in DOMAIN section
        THEN agentChildren(section.children, 1, unique.id, 0,
                 [nodes |-> withNode(acc.nodes, unique.id, node),
                  idCounters |-> unique.idCounters,
                  children |-> <<>>])
        ELSE [nodes |-> withNode(acc.nodes, unique.id, node),
              idCounters |-> unique.idCounters,
              children |-> <<>>])

agentSectionWith(section, acc, unique) ==
    agentSection(section, acc, unique, sectionNode(section, unique.id))

\* docStructure.root_sections.forEach, from section k on
RECURSIVE agentSections(_, _, _)
agentSections(sections, k, acc) ==
    IF k > Len(sections)
    THEN acc
    ELSE agentSections(sections, k + 1,
             agentSectionWith(sections[k], acc,
                 generateUniqueId(acc.nodes, acc.idCounters,
                                  baseNodeId(sections[k], k - 1))))

\* the body of rawData.forEach of the flat array branch
flatItem(item, nodeId, acc) ==
    [nodes |-> withNode(acc.nodes, nodeId,
                   [id |-> nodeId,
                    content |-> IF "content" \in DOMAIN item THEN item.content ELSE "",
                    level |-> IF "level" \in DOMAIN item THEN item.level ELSE 0,
                    children |-> IF "children" \in DOMAIN item
                                 THEN item.children ELSE <<>>]),
     rootNodes |-> IF \/ ("level" \in DOMAIN item /\ item.level = 0)
                      \/ ~("parent" \in DOMAIN item /\ item.parent # <<>>)
                   THEN Append(acc.rootNodes, nodeId)
                   ELSE acc.rootNodes]

\* rawData.forEach of the flat array branch, from item k on
RECURSIVE flatItems(_, _, _)
flatItems(items, k, acc) ==
    IF k > Len(items)
    THEN acc
    ELSE flatItems(items, k + 1,
             flatItem(items[k],
                      orElse(items[k], "id", <<"n","o","d","e","_">> \o toString(k - 1)),
                      acc))

\* the tree returned for the agent_results structure
agentTree(built) == [nodes |-> built.nodes, rootNodes |-> built.rootNodes]

\* a variant that keeps, of a canonical tree, only the children that are nodes
transformRawDocumentRebuilding(rawData) ==
    IF "nodes" \in DOMAIN rawData /\ "rootNodes" \in DOMAIN rawData
    THEN [nodes |-> [id \in DOMAIN rawData.nodes |->
                        [rawData.nodes[id] EXCEPT !.children =
                            SelectSeq(@, LAMBDA c : c \in DOMAIN rawData.nodes)]],
          rootNodes |-> rawData.rootNodes]
    ELSE IF "agent_results" \in DOMAIN rawData
    THEN agentTree(agentSections(
             rawData.agent_results.structure_discovery.structure_analysis
                    .document_structure.root_sections, 1,
             [nodes |-> <<>>, rootNodes |-> <<>>, idCounters |-> <<>>]))
    ELSE IF "array" \in DOMAIN rawData
    THEN flatItems(rawData.array, 1, [nodes |-> <<>>, rootNodes |-> <<>>])
    ELSE [nodes |-> <<>>, rootNodes |-> <<>>]

\* the shapes taken here: already canonical (nodes and rootNodes), the
\* agent_results structure, and the flat array, held in the field array
transformRawDocument(rawData) ==
    IF "nodes" \in DOMAIN rawData /\ "rootNodes" \in DOMAIN rawData
    THEN rawData
    ELSE IF "agent_results" \in DOMAIN rawData
    THEN agentTree(agentSections(
             rawData.agent_results.structure_discovery.structure_analysis
                    .document_structure.root_sections, 1,
             [nodes |-> <<>>, rootNodes |-> <<>>, idCounters |-> <<>>]))
    ELSE IF "array" \in DOMAIN rawData
    THEN flatItems(rawData.array, 1, [nodes |-> <<>>, rootNodes |-> <<>>])
    ELSE [nodes |-> <<>>, rootNodes |-> <<>>]

\* cached: the module-level cachedDocumentTree; raw: the content of the data file
loadDocumentTree(cached, raw) ==
    IF cached # NoTree
    THEN [ok |-> TRUE, tree |-> cached, cached |-> cached]
    ELSE IF raw = UnreadableDoc
    THEN [ok |-> FALSE, tree |-> NoTree, cached |-> cached]
    ELSE LET t == transformRawDocument(raw)
         IN  IF validateDocumentTree(t)
             THEN [ok |-> TRUE, tree |-> t, cached |-> t]
             ELSE [ok |-> FALSE, tree |-> NoTree, cached |-> t]

\* Raw documents that are not canonical yet

\* sequences over S of length n at most
seqsUpTo(S, n) == UNION { [1..k -> S] : k \in 0..n }

idP == <<"p","_","1">>

idP2 == <<"p","_","1","_","2">>

\* root sections per agent-results document
MaxSections == 2

\* children per root section
MaxChildren == 2

\* entries per flat array
MaxItems == 2

AgentChildren == { [id |-> i, text_content |-> "child"] : i \in {idP, idP2} }

AgentSections ==
    { [id |-> i, text_content |-> "section", children |-> c] :
          i \in {idP, idP2}, c \in seqsUpTo(AgentChildren, MaxChildren) }
    \cup { [text_content |-> "section", children |-> c] :
               c \in seqsUpTo(AgentChildren, MaxChildren) }
    \cup { [id |-> idP, text_content |-> "section"] }

AgentDoc(sections) ==
    [agent_results |-> [structure_discovery |-> [structure_analysis |->
        [document_structure |-> [root_sections |-> sections]]]]]

AgentDocs == { AgentDoc(sections) : sections \in seqsUpTo(AgentSections, MaxSections) }

FlatEntries ==
    { [id |-> i, content |-> c] : i \in {idA, idB}, c \in {"x", "y"} }
    \cup { [content |-> c] : c \in {"x", "y"} }
    \cup { [id |-> i, content |-> c, parent |-> idR, level |-> l] :
               i \in {idA, idB}, c \in {"x", "y"}, l \in {0, 1} }

FlatDoc(entries) == [array |-> entries]

FlatDocs == { FlatDoc(entries) : entries \in seqsUpTo(FlatEntries, MaxItems) }

EmptyDoc == [nodes |-> <<>>, rootNodes |-> <<>>]

CanonicalDocs == (Docs \ {UnreadableDoc}) \cup {EmptyDoc}

RawDocs == CanonicalDocs \cup AgentDocs \cup FlatDocs

\* ------------------------------------------------------------------------
\* Node context
\* ------------------------------------------------------------------------

SentenceEnds == {".", "!", "?"}

\* text.split(/[.!?]/), cur being the sentence read so far
RECURSIVE splitSentences(_, _)
splitSentences(text, cur) ==
    IF text = <<>>
    THEN <<cur>>
    ELSE IF Head(text) \in SentenceEnds
    THEN <<cur>> \o splitSentences(Tail(text), <<>>)
    ELSE splitSentences(Tail(text), Append(cur, Head(text)))

\* items.join(separator)
RECURSIVE join(_, _)
join(items, separator) ==
    IF items = <<>>
    THEN <<>>
    ELSE IF Len(items) = 1
    THEN items[1]
    ELSE items[1] \o separator \o join(Tail(items), separator)

\* s.slice(0, n), s.substring(0, n)
slice(s, n) == SubSeq(s, 1, Min2(n, Len(s)))

Ellipsis == <<".", ".", ".">>

shortPreview(preview, maxLength) ==
    IF Len(preview) > maxLength THEN slice(preview, maxLength) \o Ellipsis ELSE preview

sentencePreview(text, firstSentence, sentences, maxLength) ==
    IF Len(firstSentence) < 20 /\ Len(text) > Len(firstSentence)
    THEN shortPreview(trim(join(slice(sentences, 2), <<".", " ">>)), maxLength)
    ELSE IF Len(firstSentence) <= maxLength
    THEN firstSentence \o (IF firstSentence # text THEN Ellipsis ELSE <<>>)
    ELSE slice(firstSentence, maxLength) \o Ellipsis

extractContextualPreview(text, maxLength) ==
    IF text = <<>>
    THEN <<>>
    ELSE sentencePreview(text, trim(splitSentences(text, <<>>)[1]),
                         splitSentences(text, <<>>), maxLength)

\* a field of the node's metadata, empty when the node has none
metadataOf(node, name) ==
    IF "metadata" \in DOMAIN node /\ name \in DOMAIN node.metadata
    THEN node.metadata[name]
    ELSE <<>>

titleOf(node) ==
    IF "title" \in DOMAIN node THEN node.title ELSE <<"u","n","d","e","f","i","n","e","d">>

contentOf(node) == IF "content" \in DOMAIN node THEN node.content ELSE <<>>

\* one part of a context, written label: text; the parts are joined by " | "
part(label, text) == [label |-> label, text |-> text]

LeafType == <<"Leaf node (detailed provision)">>

ParentType(n) == <<"Parent node (">> \o toString(n) \o <<" children)">>

partIf(text, label, shown) == IF text # <<>> THEN <<part(label, shown)>> ELSE <<>>

extractEnhancedNodeContext(node) ==
    IF node.children = <<>>
    THEN <<part("Title", titleOf(node)), part("Type", LeafType)>>
    ELSE <<part("Title", titleOf(node)),
           part("Content", extractContextualPreview(contentOf(node), 150))>>
         \o partIf(metadataOf(node, "main_themes"), "Main themes",
                   join(metadataOf(node, "main_themes"), <<",", " ">>))
         \o partIf(metadataOf(node, "key_points"), "Key points",
                   join(slice(metadataOf(node, "key_points"), 3), <<";", " ">>))
         \o partIf(metadataOf(node, "scope"), "Scope",
                   extractContextualPreview(metadataOf(node, "scope"), 100))
         \o partIf(metadataOf(node, "practical_impact"), "Impact",
                   extractContextualPreview(metadataOf(node, "practical_impact"), 80))
         \o <<part("Type", ParentType(Len(node.children)))>>

\* the contexts of the nodes sent, as the prompt lists them
contextsOf(sent, tree) == [k \in DOMAIN sent |-> extractEnhancedNodeContext(tree.nodes[sent[k]])]

\* Documents whose nodes carry a title, a content and metadata

\* the longest main_themes and key_points lists of a node
MaxThemes == 4

numbered(letter, n) == [k \in 1..n |-> <<letter, DecimalDigits[k + 1]>>]

AnalysedNode(id, children, nThemes, nPoints) ==
    [id |-> id, title |-> id, level |-> IF children = <<>> THEN 2 ELSE 1,
     content |-> <<"N", "o", ".", " ", "Y", "e", "s", "!", " ", "z">>,
     children |-> children,
     metadata |-> [main_themes |-> numbered("t", nThemes),
                   key_points |-> numbered("k", nPoints),
                   scope |-> <<"a", "l", "l">>,
                   practical_impact |-> <<"b", "i", "g", "?">>]]

\* ch1 -> (s_1, s_2), every node analysed
AnalysedDoc(nThemes, nPoints) ==
    [nodes |-> [id \in {idR, idA, idB} |->
                   AnalysedNode(id, IF id = idR THEN <<idA, idB>> ELSE <<>>,
                                nThemes, nPoints)],
     rootNodes |-> <<idR>>]

AnalysedDocs == { AnalysedDoc(t, p) : t \in 0..MaxThemes, p \in 0..MaxThemes }

\* ------------------------------------------------------------------------
\* Oracle
\* ------------------------------------------------------------------------

\* threshold passed by the traverse route, in hundredths
RelevanceThreshold == 65

\* what the oracle may say about one node
EvalKinds ==
    { [isRelevant |-> TRUE,  relevanceScore |-> 90, shouldExploreChildren |-> TRUE],
      [isRelevant |-> FALSE, relevanceScore |-> 90, shouldExploreChildren |-> FALSE],
      [isRelevant |-> TRUE,  relevanceScore |-> RelevanceThreshold,
       shouldExploreChildren |-> TRUE] }

NodeEvaluation(nodeId, kind) ==
    [nodeId |-> nodeId, isRelevant |-> kind.isRelevant,
     relevanceScore |-> kind.relevanceScore, reasoning |-> "oracle",
     shouldExploreChildren |-> kind.shouldExploreChildren]

\* an id no strategy maps to a node id of the documents
ForeignId == <<"z","z","z">>

\* nodeId.replace(/^\d+\s*/, '').trim()
cleanTitle(nodeId) ==
    trim(SubSeq(nodeId, Len(leadingDigits(nodeId)) + 1, Len(nodeId)))

\* how a response deviates from "one entry per node, in order, id verbatim";
\* splitFirst: two entries for the first node, under its title and its number
ResponseShapes == {"verbatim", "dropFirst", "foreignFirst", "garbledFirst"}

shaped(shape, evaluations) ==
    CASE shape = "verbatim"     -> evaluations
      [] shape = "dropFirst"    -> Tail(evaluations)
      [] shape = "foreignFirst" ->
            [evaluations EXCEPT ![1] = [@ EXCEPT !.nodeId = ForeignId]]
      [] shape = "garbledFirst" ->
            [evaluations EXCEPT ![1] = [@ EXCEPT !.nodeId = Append(@, " ")]]
      [] shape = "splitFirst"   ->
            <<[evaluations[1] EXCEPT !.nodeId = cleanTitle(@)],
              [evaluations[1] EXCEPT !.nodeId = leadingDigits(@)]>> \o Tail(evaluations)

OracleThrew == [threw |-> TRUE, evaluations |-> <<>>]

\* the answers and deviations of an oracle that says little
TerseKinds == { k \in EvalKinds : k.relevanceScore > RelevanceThreshold }

TerseShapes == {"verbatim"}

\* the outcomes of one generateObject call for the nodes sent, for an oracle
\* that answers with the given kinds and deviates in the given shapes
OracleOutcomes(sent, kindSet, shapeSet) ==
    {OracleThrew} \cup
    { [threw |-> FALSE,
       evaluations |-> shaped(shape, [i \in DOMAIN sent |-> NodeEvaluation(sent[i], kinds[i])])] :
          kinds \in [DOMAIN sent -> kindSet], shape \in shapeSet }

\* what a chunk call's prompt holds besides the case information: the nodes
\* found above the threshold on the levels before, and the nodes sent
prompt(decisions, sent) ==
    LET above == SelectSeq(decisions, LAMBDA d : d.relevanceScore > RelevanceThreshold)
    IN  [previous |-> [k \in DOMAIN above |-> above[k].nodeId], sent |-> sent]

\* a deterministic oracle holds, in answers, what it gave for each prompt it
\* has seen; any other oracle may give any of its outcomes every time
answersTo(o, p) ==
    IF "answers" \in DOMAIN o /\ p \in DOMAIN o.answers
    THEN {o.answers[p]}
    ELSE OracleOutcomes(p.sent, o.kinds, o.shapes)

remember(o, p, outcome) ==
    IF "answers" \in DOMAIN o
    THEN [o EXCEPT !.answers = [q \in DOMAIN @ \cup {p} |->
                                   IF q = p THEN outcome ELSE @[q]]]
    ELSE o


\* ------------------------------------------------------------------------
\* State
\* ------------------------------------------------------------------------

VARIABLES
    doc,                 \* the raw document in the data file
    oracle,              \* the answers the oracle of this behaviour may give
    budget,              \* traversals this behaviour may start
    cachedDocumentTree,  \* module-level cache of the traverse route
    reqCount,            \* traverse requests received so far
    runs,                \* traversals started so far
    rpc,                 \* where the traverse request in flight stands
    response,            \* what the last finished request returned
    kept,                \* history: the results returned to a client that keeps them
    documentTree,        \* this.documentTree of the traversal in flight
    maxDepth,
    queue,               \* sequence of [nodeId, depth]
    decisions,           \* context.decisions
    visitedNodes,        \* context.visitedNodes
    relevantNodes,
    currentDepth,
    tpc,                 \* where traverseDocument stands
    chunks,              \* the chunks of the level being evaluated
    chunkIdx,
    allDecisions,        \* decisions of the chunks evaluated so far
    lastCall,            \* history: the last evaluateBatchChunk call
    file,                \* the cache file of the result store
    mem,                 \* latestTraversalResult, 0 for null
    wpc,                 \* per request: where setLatestTraversalResult stands
    wres,                \* per request: the result being stored (its run number)
    wpos,                \* per request: pieces of the result written so far
    committed,           \* history: the finished setLatestTraversalResult calls
    lastGet,             \* history: the last getLatestTraversalResult call
    cpc                  \* where clearLatestTraversalResult stands

traversalVars ==
    <<documentTree, maxDepth, queue, decisions, visitedNodes, relevantNodes,
      currentDepth, tpc, chunks, chunkIdx, allDecisions, lastCall>>

routeVars == <<doc, oracle, budget, kept, cachedDocumentTree, rpc, response>>

storeVars == <<file, mem, wpc, wres, wpos, committed, lastGet, cpc>>

vars == <<routeVars, reqCount, runs, traversalVars, storeVars>>

\* requests per behaviour
MaxRequests == 2

\* the maxDepth a request may ask for besides the default
SmallDepth == 2

DefaultMaxDepth == 8

MaxDepths == {SmallDepth, DefaultMaxDepth}

NoCall == [none |-> TRUE]

NoResponse == [status |-> 0]

NoFile == [exists |-> FALSE, content |-> <<>>]

NoGet == [none |-> TRUE]

\* nobody keeps the results returned
NotKept == [on |-> FALSE, results |-> <<>>]

\* ------------------------------------------------------------------------
\* Traversal driver
\* ------------------------------------------------------------------------

\* a variant of the inclusion rule that takes the threshold itself
isIncludedFromThreshold(decision, threshold) == decision.relevanceScore >= threshold

\* the inclusion rule
isIncluded(decision, threshold) == decision.relevanceScore > threshold

\* a variant of the descent rule that descends only from included nodes
childrenOfIncluded(decision, tree, visited, depth, limit) ==
    IF /\ decision.visited
       /\ decision.relevanceScore > RelevanceThreshold
       /\ decision.nodeId \in DOMAIN tree.nodes
       /\ depth + 1 < limit
    THEN SelectSeq(tree.nodes[decision.nodeId].children, LAMBDA c : c \notin visited)
    ELSE <<>>

\* a variant of the descent rule that still descends at the last depth
childrenUpToLimit(decision, tree, visited, depth, limit) ==
    IF /\ decision.visited
       /\ decision.nodeId \in DOMAIN tree.nodes
       /\ depth + 1 <= limit
    THEN SelectSeq(tree.nodes[decision.nodeId].children, LAMBDA c : c \notin visited)
    ELSE <<>>

\* a variant of the descent rule that takes the children last to first
childrenLastFirst(decision, tree, visited, depth, limit) ==
    IF /\ decision.visited
       /\ decision.nodeId \in DOMAIN tree.nodes
       /\ depth + 1 < limit
    THEN LET fresh_ == SelectSeq(tree.nodes[decision.nodeId].children,
                                LAMBDA c : c \notin visited)
         IN  [k \in DOMAIN fresh_ |-> fresh_[Len(fresh_) + 1 - k]]
    ELSE <<>>

\* a variant of the descent rule that takes the first child only
childrenFirstOnly(decision, tree, visited, depth, limit) ==
    IF /\ decision.visited
       /\ decision.nodeId \in DOMAIN tree.nodes
       /\ depth + 1 < limit
    THEN LET fresh_ == SelectSeq(tree.nodes[decision.nodeId].children,
                                LAMBDA c : c \notin visited)
         IN  IF fresh_ = <<>> THEN <<>> ELSE <<fresh_[1]>>
    ELSE <<>>

\* a variant of the descent rule that descends whatever visited is
childrenWhateverVisited(decision, tree, visited, depth, limit) ==
    IF /\ decision.nodeId \in DOMAIN tree.nodes
       /\ depth + 1 < limit
    THEN SelectSeq(tree.nodes[decision.nodeId].children, LAMBDA c : c \notin visited)
    ELSE <<>>

\* the children a decision adds to the queue
childrenToEnqueue(decision, tree, visited, depth, limit) ==
    IF /\ decision.visited
       /\ decision.nodeId \in DOMAIN tree.nodes
       /\ depth + 1 < limit
    THEN SelectSeq(tree.nodes[decision.nodeId].children, LAMBDA c : c \notin visited)
    ELSE <<>>

\* the loop over levelDecisions; st holds relevantNodes, queue, decisions
\* and visitedNodes
RECURSIVE processDecisions(_, _, _, _, _)
processDecisions(levelDecisions, st, tree, depth, limit) ==
    IF levelDecisions = <<>>
    THEN st
    ELSE LET decision == Head(levelDecisions)
             exists   == decision.nodeId \in DOMAIN tree.nodes
             included == isIncluded(decision, RelevanceThreshold) /\ exists
             pushed   == childrenToEnqueue(decision, tree, st.visitedNodes, depth, limit)
             next ==
                 [relevantNodes |->
                      IF included
                      THEN Append(st.relevantNodes, tree.nodes[decision.nodeId])
                      ELSE st.relevantNodes,
                  queue |-> st.queue \o
                      [k \in DOMAIN pushed |-> [nodeId |-> pushed[k], depth |-> depth + 1]],
                  decisions    |-> Append(st.decisions, decision),
                  visitedNodes |-> st.visitedNodes \cup {decision.nodeId}]
         IN  processDecisions(Tail(levelDecisions), next, tree, depth, limit)

\* the entries of the queue at one depth
levelOf(q, depth) == SelectSeq(q, LAMBDA item : item.depth = depth)

\* a variant of the top of the level loop that ends at the depth limit only
LevelBeginToTheLimit ==
    /\ tpc = "level"
    /\ LET currentLevel == levelOf(queue, currentDepth)
       IN  IF currentDepth < maxDepth
           THEN /\ chunks' = chunksOf([k \in DOMAIN currentLevel |-> currentLevel[k].nodeId])
                /\ chunkIdx' = 1
                /\ tpc' = "chunk"
           ELSE /\ tpc' = "final"
                /\ UNCHANGED <<chunks, chunkIdx>>
    /\ allDecisions' = <<>>
    /\ UNCHANGED <<documentTree, maxDepth, queue, decisions, visitedNodes, relevantNodes,
                   currentDepth, lastCall>>
    /\ UNCHANGED <<routeVars, reqCount, runs, storeVars>>

\* top of the level loop: the loop ends at the depth limit or at an empty level
LevelBegin ==
    /\ tpc = "level"
    /\ LET currentLevel == levelOf(queue, currentDepth)
       IN  IF currentDepth < maxDepth /\ currentLevel # <<>>
           THEN /\ chunks' = chunksOf([k \in DOMAIN currentLevel |-> currentLevel[k].nodeId])
                /\ chunkIdx' = 1
                /\ tpc' = "chunk"
           ELSE /\ tpc' = "final"
                /\ UNCHANGED <<chunks, chunkIdx>>
    /\ allDecisions' = <<>>
    /\ UNCHANGED <<documentTree, maxDepth, queue, decisions, visitedNodes, relevantNodes,
                   currentDepth, lastCall>>
    /\ UNCHANGED <<routeVars, reqCount, runs, storeVars>>

\* a variant in which a failed chunk also replaces the decisions of the
\* chunks before it
appendChunkFailingAll(all, chunkDecisions) ==
    IF \E i \in DOMAIN chunkDecisions :
          chunkDecisions[i].reasoning = "Error during batch evaluation"
    THEN [i \in DOMAIN all |->
             [all[i] EXCEPT !.visited = FALSE, !.relevanceScore = 0,
                            !.reasoning = "Error during batch evaluation"]]
         \o chunkDecisions
    ELSE all \o chunkDecisions

\* what batchEvaluateNodes holds after one more chunk
appendChunk(all, chunkDecisions) == all \o chunkDecisions

\* a variant that goes on to the next chunk without the wait
EvalChunkBackToBack ==
    /\ tpc = "chunk"
    /\ LET nodeIds == chunks[chunkIdx]
           sent    == validNodes(nodeIds, documentTree)
       IN  \E outcome \in (IF sent = <<>>
                            THEN {NoCall}
                            ELSE answersTo(oracle, prompt(decisions, sent))) :
              LET chunkDecisions ==
                      evaluateBatchChunk(nodeIds, documentTree, outcome, currentDepth)
              IN  /\ allDecisions' = appendChunk(allDecisions, chunkDecisions)
                  /\ oracle' = IF sent = <<>>
                               THEN oracle
                               ELSE remember(oracle, prompt(decisions, sent), outcome)
                  /\ lastCall' = [nodeIds |-> nodeIds, sent |-> sent, outcome |-> outcome,
                                  decisions |-> chunkDecisions, before |-> allDecisions,
                                  chunk |-> chunkIdx,
                                  contexts |-> contextsOf(sent, documentTree),
                                  mapping |-> IF outcome = NoCall \/ outcome.threw
                                              THEN <<>>
                                              ELSE mapRequested(nodeIds, outcome.evaluations, {})]
    /\ tpc' = IF chunkIdx < Len(chunks) THEN "chunk" ELSE "process"
    /\ chunkIdx' = IF chunkIdx < Len(chunks) THEN chunkIdx + 1 ELSE chunkIdx
    /\ UNCHANGED <<documentTree, maxDepth, queue, decisions, visitedNodes, relevantNodes,
                   currentDepth, chunks>>
    /\ UNCHANGED <<doc, budget, kept, cachedDocumentTree, rpc, response>>
    /\ UNCHANGED <<reqCount, runs, storeVars>>

\* one evaluateBatchChunk call of batchEvaluateNodes
EvalChunk ==
    /\ tpc = "chunk"
    /\ LET nodeIds == chunks[chunkIdx]
           sent    == validNodes(nodeIds, documentTree)
       IN  \E outcome \in (IF sent = <<>>
                            THEN {NoCall}
                            ELSE answersTo(oracle, prompt(decisions, sent))) :
              LET chunkDecisions ==
                      evaluateBatchChunk(nodeIds, documentTree, outcome, currentDepth)
              IN  /\ allDecisions' = appendChunk(allDecisions, chunkDecisions)
                  /\ oracle' = IF sent = <<>>
                               THEN oracle
                               ELSE remember(oracle, prompt(decisions, sent), outcome)
                  /\ lastCall' = [nodeIds |-> nodeIds, sent |-> sent, outcome |-> outcome,
                                  decisions |-> chunkDecisions, before |-> allDecisions,
                                  chunk |-> chunkIdx,
                                  contexts |-> contextsOf(sent, documentTree),
                                  mapping |-> IF outcome = NoCall \/ outcome.threw
                                              THEN <<>>
                                              ELSE mapRequested(nodeIds, outcome.evaluations, {})]
    /\ tpc' = IF chunkIdx < Len(chunks) THEN "pause" ELSE "process"
    /\ UNCHANGED <<documentTree, maxDepth, queue, decisions, visitedNodes, relevantNodes,
                   currentDepth, chunks, chunkIdx>>
    /\ UNCHANGED <<doc, budget, kept, cachedDocumentTree, rpc, response>>
    /\ UNCHANGED <<reqCount, runs, storeVars>>

\* the one second wait between two chunks
Pause ==
    /\ tpc = "pause"
    /\ chunkIdx' = chunkIdx + 1
    /\ tpc' = "chunk"
    /\ UNCHANGED <<documentTree, maxDepth, queue, decisions, visitedNodes, relevantNodes,
                   currentDepth, chunks, allDecisions, lastCall>>
    /\ UNCHANGED <<routeVars, reqCount, runs, storeVars>>

\* the decisions of the level are processed and the level leaves the queue
ProcessLevel ==
    /\ tpc = "process"
    /\ LET st == processDecisions(allDecisions,
                     [relevantNodes |-> relevantNodes, queue |-> queue,
                      decisions |-> decisions, visitedNodes |-> visitedNodes],
                     documentTree, currentDepth, maxDepth)
       IN  /\ relevantNodes' = st.relevantNodes
           /\ decisions' = st.decisions
           /\ visitedNodes' = st.visitedNodes
           /\ queue' = SelectSeq(st.queue, LAMBDA item : item.depth # currentDepth)
    /\ currentDepth' = currentDepth + 1
    /\ tpc' = "level"
    /\ lastCall' = NoCall
    /\ UNCHANGED <<documentTree, maxDepth, chunks, chunkIdx, allDecisions>>
    /\ UNCHANGED <<routeVars, reqCount, runs, storeVars>>

\* generateFinalRecommendation returns: traverseDocument returns its result
FinalOk ==
    /\ tpc = "final"
    /\ tpc' = "returned"
    /\ UNCHANGED <<documentTree, maxDepth, queue, decisions, visitedNodes, relevantNodes,
                   currentDepth, chunks, chunkIdx, allDecisions, lastCall>>
    /\ UNCHANGED <<routeVars, reqCount, runs, storeVars>>

\* generateObject throws in generateFinalRecommendation, which has no handler,
\* and neither has traverseDocument around the call
FinalThrow ==
    /\ tpc = "final"
    /\ tpc' = "threw"
    /\ UNCHANGED <<documentTree, maxDepth, queue, decisions, visitedNodes, relevantNodes,
                   currentDepth, chunks, chunkIdx, allDecisions, lastCall>>
    /\ UNCHANGED <<routeVars, reqCount, runs, storeVars>>


\* ------------------------------------------------------------------------
\* Result store
\* ------------------------------------------------------------------------

\* pieces in which fs.writeFile writes one result document
FileChunks == 2

Null == [kind |-> "null"]

Result(run) == [kind |-> "result", run |-> run]

Mixed(content) == [kind |-> "mixed", content |-> content]

memValue(m) == IF m = 0 THEN Null ELSE Result(m)

\* file content after one piece is written at a position (a position beyond
\* the end leaves a hole, piece 0)
writeAt(content, pos, run) ==
    [k \in 1..Max2(Len(content), pos) |->
        IF k = pos THEN run ELSE IF k <= Len(content) THEN content[k] ELSE 0]

\* the file is opened for writing: created or truncated
StoreOpenOk(p) ==
    /\ wpc[p] = "open"
    /\ file' = [exists |-> TRUE, content |-> <<>>]
    /\ wpos' = [wpos EXCEPT ![p] = 0]
    /\ wpc' = [wpc EXCEPT ![p] = "write"]
    /\ UNCHANGED <<mem, wres, committed, lastGet, cpc>>
    /\ UNCHANGED <<routeVars, reqCount, runs, traversalVars>>

\* opening fails: the catch block keeps the result in memory
StoreOpenFail(p) ==
    /\ wpc[p] = "open"
    /\ mem' = wres[p]
    /\ wpc' = [wpc EXCEPT ![p] = "done"]
    /\ committed' = Append(committed, [run |-> wres[p], ok |-> FALSE])
    /\ UNCHANGED <<file, wres, wpos, lastGet, cpc>>
    /\ UNCHANGED <<routeVars, reqCount, runs, traversalVars>>

\* one piece is written at the writer's own offset; after the last piece
\* writeFile resolves and setLatestTraversalResult returns
StoreWriteOk(p) ==
    /\ wpc[p] = "write"
    /\ file' = IF file.exists
               THEN [file EXCEPT !.content = writeAt(@, wpos[p] + 1, wres[p])]
               ELSE file
    /\ wpos' = [wpos EXCEPT ![p] = @ + 1]
    /\ IF wpos[p] + 1 = FileChunks
       THEN /\ wpc' = [wpc EXCEPT ![p] = "done"]
            /\ committed' = Append(committed, [run |-> wres[p], ok |-> TRUE])
       ELSE UNCHANGED <<wpc, committed>>
    /\ UNCHANGED <<mem, wres, lastGet, cpc>>
    /\ UNCHANGED <<routeVars, reqCount, runs, traversalVars>>

\* a variant in which the failure of a write is rethrown to the request
StoreWriteFailRethrown(p) ==
    /\ wpc[p] = "write"
    /\ mem' = wres[p]
    /\ wpc' = [wpc EXCEPT ![p] = "idle"]
    /\ committed' = Append(committed, [run |-> wres[p], ok |-> FALSE])
    /\ response' = [status |-> 500]
    /\ rpc' = "idle"
    /\ UNCHANGED <<file, wres, wpos, lastGet, cpc>>
    /\ UNCHANGED <<doc, oracle, budget, kept, cachedDocumentTree, reqCount, runs, traversalVars>>

\* a write fails: the catch block keeps the result in memory
StoreWriteFail(p) ==
    /\ wpc[p] = "write"
    /\ mem' = wres[p]
    /\ wpc' = [wpc EXCEPT ![p] = "done"]
    /\ committed' = Append(committed, [run |-> wres[p], ok |-> FALSE])
    /\ UNCHANGED <<file, wres, wpos, lastGet, cpc>>
    /\ UNCHANGED <<routeVars, reqCount, runs, traversalVars>>

Throw == [kind |-> "throw"]

\* what readFile and JSON.parse make of the file; Throw stands for an error
parseOutcomes(f) ==
    IF ~f.exists \/ Len(f.content) # FileChunks \/ \E k \in DOMAIN f.content : f.content[k] = 0
    THEN {Throw}
    ELSE IF \A k \in DOMAIN f.content : f.content[k] = f.content[1]
    THEN {Result(f.content[1])}
    \* pieces of different documents: a syntax error, or a document of both
    ELSE {Throw, Mixed(f.content)}

\* the values getLatestTraversalResult may return
getLatestTraversalResult(f, m) ==
    { IF o = Throw THEN memValue(m) ELSE o : o \in parseOutcomes(f) }

\* the runs whose setLatestTraversalResult call is in flight
inFlight == { wres[p] : p \in { q \in DOMAIN wpc : wpc[q] \in {"open", "write"} } }

\* the export route fetches the latest result
Get ==
    /\ \E v \in getLatestTraversalResult(file, mem) :
          lastGet' = [value |-> v, inFlight |-> inFlight, committed |-> committed,
                      clearing |-> cpc # "idle"]
    /\ UNCHANGED <<file, mem, wpc, wres, wpos, committed, cpc>>
    /\ UNCHANGED <<routeVars, reqCount, runs, traversalVars>>

\* GET /api/traverse/export between two traverse requests
Export ==
    /\ rpc = "idle"
    /\ Get

\* how the history records that a clearLatestTraversalResult call has begun
ClearEvent == [run |-> 0, ok |-> TRUE]

\* clearLatestTraversalResult up to its await: the file is unlinked
ClearUnlink ==
    /\ cpc = "idle"
    /\ file' = NoFile
    /\ cpc' = "unlinked"
    /\ committed' = IF committed # <<>> /\ committed[Len(committed)].run = 0
                    THEN committed
                    ELSE Append(committed, ClearEvent)
    /\ UNCHANGED <<mem, wpc, wres, wpos, lastGet>>
    /\ UNCHANGED <<routeVars, reqCount, runs, traversalVars>>

\* a variant of the second half that keeps the memory copy
ClearFileOnly ==
    /\ cpc = "unlinked"
    /\ cpc' = "idle"
    /\ UNCHANGED <<file, mem, wpc, wres, wpos, committed, lastGet>>
    /\ UNCHANGED <<routeVars, reqCount, runs, traversalVars>>

\* clearLatestTraversalResult after its await: the memory copy is dropped
ClearMemory ==
    /\ cpc = "unlinked"
    /\ mem' = 0
    /\ cpc' = "idle"
    /\ UNCHANGED <<file, wpc, wres, wpos, committed, lastGet>>
    /\ UNCHANGED <<routeVars, reqCount, runs, traversalVars>>


\* ------------------------------------------------------------------------
\* Traverse route
\* ------------------------------------------------------------------------

idleTraversal ==
    /\ documentTree' = NoTree
    /\ maxDepth' = 0
    /\ queue' = <<>>
    /\ decisions' = <<>>
    /\ visitedNodes' = {}
    /\ relevantNodes' = <<>>
    /\ currentDepth' = 0
    /\ tpc' = "none"
    /\ chunks' = <<>>
    /\ chunkIdx' = 0
    /\ allDecisions' = <<>>
    /\ lastCall' = NoCall

\* POST without caseInformation
PostBadRequest ==
    /\ rpc = "idle"
    /\ reqCount < MaxRequests
    /\ reqCount' = reqCount + 1
    /\ response' = [status |-> 400]
    /\ UNCHANGED <<doc, oracle, budget, kept, cachedDocumentTree, rpc, runs, traversalVars, storeVars>>

\* POST whose loadDocumentTree throws
PostLoadFail ==
    /\ rpc = "idle"
    /\ reqCount < MaxRequests
    /\ LET loaded == loadDocumentTree(cachedDocumentTree, doc)
       IN  /\ ~loaded.ok
           /\ cachedDocumentTree' = loaded.cached
    /\ reqCount' = reqCount + 1
    /\ response' = [status |-> 500]
    /\ UNCHANGED <<doc, oracle, budget, kept, rpc, runs, traversalVars, storeVars>>

\* a variant that starts with the nodes visited by the run answered last
PostTraverseRevisiting ==
    /\ rpc = "idle"
    /\ reqCount < MaxRequests
    /\ LET loaded == loadDocumentTree(cachedDocumentTree, doc)
       IN  /\ loaded.ok
           /\ cachedDocumentTree' = loaded.cached
           /\ documentTree' = loaded.tree
           /\ queue' = [k \in DOMAIN loaded.tree.rootNodes |->
                           [nodeId |-> loaded.tree.rootNodes[k], depth |-> 0]]
    /\ runs < budget
    /\ \E d \in MaxDepths : maxDepth' = d
    /\ reqCount' = reqCount + 1
    /\ runs' = runs + 1
    /\ rpc' = "traverse"
    /\ response' = NoResponse
    /\ decisions' = <<>>
    /\ visitedNodes' = IF response.status = 200
                       THEN { d.nodeId : d \in { x \in Range(response.traversalPath) : x.visited } }
                       ELSE {}
    /\ relevantNodes' = <<>>
    /\ currentDepth' = 0
    /\ tpc' = "level"
    /\ chunks' = <<>>
    /\ chunkIdx' = 0
    /\ allDecisions' = <<>>
    /\ lastCall' = NoCall
    /\ UNCHANGED <<doc, oracle, budget, kept, storeVars>>

\* POST that gets a tree: the traversal is constructed and traverseDocument
\* runs up to its level loop
PostTraverse ==
    /\ rpc = "idle"
    /\ reqCount < MaxRequests
    /\ LET loaded == loadDocumentTree(cachedDocumentTree, doc)
       IN  /\ loaded.ok
           /\ cachedDocumentTree' = loaded.cached
           /\ documentTree' = loaded.tree
           /\ queue' = [k \in DOMAIN loaded.tree.rootNodes |->
                           [nodeId |-> loaded.tree.rootNodes[k], depth |-> 0]]
    /\ runs < budget
    /\ \E d \in MaxDepths : maxDepth' = d
    /\ reqCount' = reqCount + 1
    /\ runs' = runs + 1
    /\ rpc' = "traverse"
    /\ response' = NoResponse
    /\ decisions' = <<>>
    /\ visitedNodes' = {}
    /\ relevantNodes' = <<>>
    /\ currentDepth' = 0
    /\ tpc' = "level"
    /\ chunks' = <<>>
    /\ chunkIdx' = 0
    /\ allDecisions' = <<>>
    /\ lastCall' = NoCall
    /\ UNCHANGED <<doc, oracle, budget, kept, storeVars>>

\* a variant of the catch block that keeps what there is of the run in memory
PostCatchStoring ==
    /\ rpc = "traverse"
    /\ tpc = "threw"
    /\ response' = [status |-> 500]
    /\ rpc' = "idle"
    /\ idleTraversal
    /\ mem' = reqCount
    /\ UNCHANGED <<doc, oracle, budget, kept, cachedDocumentTree, reqCount, runs>>
    /\ UNCHANGED <<file, wpc, wres, wpos, committed, lastGet, cpc>>

\* traverseDocument threw: the catch block of POST answers 500
PostCatch ==
    /\ rpc = "traverse"
    /\ tpc = "threw"
    /\ response' = [status |-> 500]
    /\ rpc' = "idle"
    /\ idleTraversal
    /\ UNCHANGED <<doc, oracle, budget, kept, cachedDocumentTree, reqCount, runs, storeVars>>

\* traverseDocument returned and createExportData throws on a relevant node
\* that has no content: the catch block of POST answers 500
PostExportThrow ==
    /\ rpc = "traverse"
    /\ tpc = "returned"
    /\ relevantNodes # <<>>
    /\ response' = [status |-> 500]
    /\ rpc' = "idle"
    /\ idleTraversal
    /\ UNCHANGED <<doc, oracle, budget, kept, cachedDocumentTree, reqCount, runs, storeVars>>

\* traverseDocument returned: the export data is built and
\* setLatestTraversalResult is called with it
PostStore ==
    /\ rpc = "traverse"
    /\ tpc = "returned"
    /\ rpc' = "store"
    /\ wpc' = [wpc EXCEPT ![1] = "open"]
    /\ wres' = [wres EXCEPT ![1] = reqCount]
    /\ UNCHANGED <<doc, oracle, budget, kept, cachedDocumentTree, response, reqCount, runs, traversalVars>>
    /\ UNCHANGED <<file, mem, wpos, committed, lastGet, cpc>>

\* setLatestTraversalResult returned: the result is sent
PostRespond ==
    /\ rpc = "store"
    /\ wpc[1] = "done"
    /\ response' = [status |-> 200, run |-> reqCount, traversalPath |-> decisions,
                    relevantNodes |-> relevantNodes]
    /\ rpc' = "idle"
    /\ kept' = IF kept.on
               THEN [kept EXCEPT !.results =
                        Append(@, [maxDepth |-> maxDepth, traversalPath |-> decisions,
                                   relevantNodes |-> relevantNodes])]
               ELSE kept
    /\ wpc' = [wpc EXCEPT ![1] = "idle"]
    /\ idleTraversal
    /\ UNCHANGED <<doc, oracle, budget, cachedDocumentTree, reqCount, runs>>
    /\ UNCHANGED <<file, mem, wres, wpos, committed, lastGet, cpc>>

\* the state of a fresh server process, but for the document, the oracle and
\* the number of requests to come
fresh ==
    /\ cachedDocumentTree = NoTree
    /\ reqCount = 0
    /\ runs = 0
    /\ rpc = "idle"
    /\ response = NoResponse
    /\ documentTree = NoTree
    /\ maxDepth = 0
    /\ queue = <<>>
    /\ decisions = <<>>
    /\ visitedNodes = {}
    /\ relevantNodes = <<>>
    /\ currentDepth = 0
    /\ tpc = "none"
    /\ chunks = <<>>
    /\ chunkIdx = 0
    /\ allDecisions = <<>>
    /\ lastCall = NoCall
    /\ file = NoFile
    /\ mem = 0
    /\ committed = <<>>
    /\ lastGet = NoGet
    /\ cpc = "idle"

requestSlots(n) ==
    /\ wpc = [p \in 1..n |-> "idle"]
    /\ wres = [p \in 1..n |-> 0]
    /\ wpos = [p \in 1..n |-> 0]

Init ==
    /\ doc \in Docs
    /\ oracle = [kinds |-> EvalKinds, shapes |-> ResponseShapes]
    /\ budget = 1
    /\ kept = NotKept
    /\ fresh
    /\ requestSlots(1)

Next ==
    \/ PostLoadFail
    \/ PostTraverse
    \/ LevelBegin
    \/ EvalChunk
    \/ Pause
    \/ ProcessLevel
    \/ FinalOk
    \/ FinalThrow
    \/ PostCatch

\* the traversal of one request, from the request to the return of
\* traverseDocument, for any document and any answers of the oracle
Spec == Init /\ [][Next]_vars

\* traverseDocument moves on: every step of LevelBegin, EvalChunk, Pause,
\* ProcessLevel, FinalOk and FinalThrow changes tpc, and no other step does
\* while traverseDocument runs
Advance ==
    /\ tpc \in {"level", "chunk", "pause", "process", "final"}
    /\ tpc' \in {"level", "chunk", "pause", "process", "final", "returned", "threw"}
    /\ tpc' # tpc

\* the same, where every await of traverseDocument settles: an oracle call
\* returns or throws, the wait between two chunks ends, and the code that
\* follows runs
SpecLive == Init /\ [][Next]_vars /\ WF_tpc(Advance)

NextRoute ==
    \/ PostBadRequest
    \/ PostLoadFail
    \/ PostTraverse
    \/ LevelBegin
    \/ EvalChunk
    \/ Pause
    \/ ProcessLevel
    \/ FinalOk
    \/ FinalThrow
    \/ PostCatch
    \/ PostExportThrow
    \/ PostStore
    \/ StoreOpenOk(1)
    \/ StoreOpenFail(1)
    \/ StoreWriteOk(1)
    \/ StoreWriteFail(1)
    \/ PostRespond
    \/ Export

InitRoute ==
    /\ doc \in Docs
    /\ oracle = [kinds |-> TerseKinds, shapes |-> TerseShapes]
    /\ budget = MaxRequests
    /\ kept = NotKept
    /\ fresh
    /\ requestSlots(1)

\* whole traverse requests served one after the other, with an oracle that
\* says little
SpecRoute == InitRoute /\ [][NextRoute]_vars

InitLoad ==
    /\ doc \in RawDocs
    /\ oracle = [kinds |-> TerseKinds, shapes |-> TerseShapes]
    /\ budget = 1
    /\ kept = NotKept
    /\ fresh
    /\ requestSlots(1)

NextLoad ==
    \/ PostLoadFail
    \/ PostTraverse

\* the requests up to the return of loadDocumentTree, for raw documents of
\* every shape
SpecLoad == InitLoad /\ [][NextLoad]_vars

\* the deviations of the deterministic oracle
TwiceShapes == {"verbatim", "dropFirst"}

InitTwice ==
    /\ doc \in Docs
    /\ oracle = [kinds |-> TerseKinds, shapes |-> TwiceShapes, answers |-> <<>>]
    /\ budget = MaxRequests
    /\ kept = [on |-> TRUE, results |-> <<>>]
    /\ fresh
    /\ requestSlots(1)

\* whole traverse requests with case information, served one after the other
\* by a deterministic oracle, for a client that keeps the results
NextTwice ==
    \/ PostLoadFail
    \/ PostTraverse
    \/ LevelBegin
    \/ EvalChunk
    \/ Pause
    \/ ProcessLevel
    \/ FinalOk
    \/ FinalThrow
    \/ PostCatch
    \/ PostExportThrow
    \/ PostStore
    \/ StoreOpenOk(1)
    \/ StoreOpenFail(1)
    \/ StoreWriteOk(1)
    \/ StoreWriteFail(1)
    \/ PostRespond

SpecTwice == InitTwice /\ [][NextTwice]_vars

InitReconcile ==
    /\ doc \in Docs \cup {NumberedDoc}
    /\ oracle = [kinds |-> EvalKinds, shapes |-> ResponseShapes \cup {"splitFirst"}]
    /\ budget = 1
    /\ kept = NotKept
    /\ fresh
    /\ requestSlots(1)

\* the traversal of one request, where the document may have a numbered
\* title as id and the oracle may answer under the title and under the number
SpecReconcile == InitReconcile /\ [][Next]_vars

InitContext ==
    /\ doc \in Docs \cup AnalysedDocs
    /\ oracle = [kinds |-> TerseKinds, shapes |-> TerseShapes]
    /\ budget = 1
    /\ kept = NotKept
    /\ fresh
    /\ requestSlots(1)

\* the traversal of one request, where the nodes of the document may carry
\* a title, a content and metadata
SpecContext == InitContext /\ [][Next]_vars


\* ------------------------------------------------------------------------
\* Concurrent requests on the result store
\* ------------------------------------------------------------------------

\* traverse requests that may be in flight at once
StoreProcs == 2

\* a traverse request has come as far as calling setLatestTraversalResult
\* with the export data of its run
RunCompletes(p) ==
    /\ wpc[p] = "idle"
    /\ reqCount < MaxRequests
    /\ reqCount' = reqCount + 1
    /\ wres' = [wres EXCEPT ![p] = reqCount + 1]
    /\ wpc' = [wpc EXCEPT ![p] = "open"]
    /\ UNCHANGED <<file, mem, wpos, committed, lastGet, cpc>>
    /\ runs' = runs + 1
    /\ UNCHANGED <<routeVars, traversalVars>>

\* setLatestTraversalResult returned and the request is answered
RunReturns(p) ==
    /\ wpc[p] = "done"
    /\ wpc' = [wpc EXCEPT ![p] = "idle"]
    /\ UNCHANGED <<file, mem, wres, wpos, committed, lastGet, cpc>>
    /\ UNCHANGED <<routeVars, reqCount, runs, traversalVars>>

InitStore ==
    /\ doc = TreeDoc
    /\ oracle = [kinds |-> TerseKinds, shapes |-> TerseShapes]
    /\ budget = MaxRequests
    /\ kept = NotKept
    /\ fresh
    /\ requestSlots(StoreProcs)

NextStore ==
    \/ \E p \in DOMAIN wpc : RunCompletes(p)
    \/ \E p \in DOMAIN wpc : StoreOpenOk(p)
    \/ \E p \in DOMAIN wpc : StoreOpenFail(p)
    \/ \E p \in DOMAIN wpc : StoreWriteOk(p)
    \/ \E p \in DOMAIN wpc : StoreWriteFail(p)
    \/ \E p \in DOMAIN wpc : RunReturns(p)
    \/ Get
    \/ ClearUnlink
    \/ ClearMemory

\* requests that overlap in their use of the result store
SpecStore == InitStore /\ [][NextStore]_vars

\* ------------------------------------------------------------------------
\* Properties of the traversal (Spec)
\* ------------------------------------------------------------------------

\* the ids submitted for the level being evaluated, in queue order
levelIds ==
    LET currentLevel == levelOf(queue, currentDepth)
    IN  [k \in DOMAIN currentLevel |-> currentLevel[k].nodeId]

inTree(nodeId) == nodeId \in DOMAIN documentTree.nodes

\* the nodes of the decisions scored above the threshold, in decision order
nodesAboveThreshold ==
    LET above == SelectSeq(decisions,
                     LAMBDA d : d.relevanceScore > RelevanceThreshold /\ inTree(d.nodeId))
    IN  [k \in DOMAIN above |-> documentTree.nodes[above[k].nodeId]]

\* the ids decided before the k-th decision of the run
decidedBefore(k) == { decisions[i].nodeId : i \in 1..(k - 1) }

\* the children the decisions of one depth ask for: those of the nodes with
\* visited = TRUE, while the next depth is below the limit, that were not
\* decided before
RECURSIVE childrenAskedFrom(_, _)
childrenAskedFrom(k, depth) ==
    IF k > Len(decisions)
    THEN <<>>
    ELSE (IF /\ decisions[k].depth = depth
             /\ decisions[k].visited
             /\ inTree(decisions[k].nodeId)
             /\ depth + 1 < maxDepth
          THEN SelectSeq(documentTree.nodes[decisions[k].nodeId].children,
                         LAMBDA c : c \notin decidedBefore(k))
          ELSE <<>>)
         \o childrenAskedFrom(k + 1, depth)

\* C1: every evaluateBatchChunk call returns one decision per id of its chunk,
\* the i-th carrying the i-th id, and so does batchEvaluateNodes for the ids
\* of the level, whatever the oracle did
C1_OneDecisionPerSubmittedId ==
    /\ lastCall # NoCall =>
          /\ Len(lastCall.decisions) = Len(lastCall.nodeIds)
          /\ \A i \in DOMAIN lastCall.nodeIds :
                lastCall.decisions[i].nodeId = lastCall.nodeIds[i]
    /\ tpc = "process" =>
          /\ Len(allDecisions) = Len(levelIds)
          /\ \A i \in DOMAIN levelIds : allDecisions[i].nodeId = levelIds[i]

\* a level of two chunks is evaluated: one call threw, one answered, one id
\* found no entry in its response
C1_Witness ==
    /\ tpc = "process"
    /\ Len(chunks) > 1
    /\ \E i, j, k \in DOMAIN allDecisions :
          /\ allDecisions[i].reasoning = "Error during batch evaluation"
          /\ allDecisions[j].reasoning = "Could not map to batch evaluation response"
          /\ allDecisions[k].reasoning = "oracle"

\* C2: in a run on a tree that validateDocumentTree accepts, no two decisions
\* of the traversal path have the same nodeId
C2_NoNodeDecidedTwice ==
    (documentTree # NoTree /\ validateDocumentTree(documentTree)) =>
        \A i, j \in DOMAIN decisions :
            decisions[i].nodeId = decisions[j].nodeId => i = j

C4_InclusionAndDescentIndependent ==
    (documentTree # NoTree /\ currentDepth > 0) =>
        /\ [k \in DOMAIN queue |-> queue[k].nodeId]
              = childrenAskedFrom(1, currentDepth - 1)
        /\ \A k \in DOMAIN queue : queue[k].depth = currentDepth
        /\ Len(relevantNodes) = Len(nodesAboveThreshold)
        /\ \A k \in DOMAIN relevantNodes : relevantNodes[k] = nodesAboveThreshold[k]

\* a run has returned in which a node with children was descended from but
\* not included, and another was included but not descended from
C4_Witness ==
    /\ tpc = "returned"
    /\ \E i, j \in DOMAIN decisions :
          /\ inTree(decisions[i].nodeId) /\ inTree(decisions[j].nodeId)
          /\ decisions[i].visited
          /\ decisions[i].relevanceScore <= RelevanceThreshold
          /\ \A k \in DOMAIN relevantNodes : relevantNodes[k].id # decisions[i].nodeId
          /\ documentTree.nodes[decisions[i].nodeId].children # <<>>
          /\ \A c \in Range(documentTree.nodes[decisions[i].nodeId].children) :
                \E k \in DOMAIN decisions : decisions[k].nodeId = c
          /\ ~decisions[j].visited
          /\ decisions[j].relevanceScore > RelevanceThreshold
          /\ \E k \in DOMAIN relevantNodes : relevantNodes[k].id = decisions[j].nodeId
          /\ documentTree.nodes[decisions[j].nodeId].children # <<>>
          /\ \A c \in Range(documentTree.nodes[decisions[j].nodeId].children) :
                \A k \in DOMAIN decisions : decisions[k].nodeId # c

\* C5: no failure of the oracle leaves traverseDocument as an exception
C5_OracleFailureStaysInside == tpc # "threw"

\* C6: after a chunk call the decisions of the chunks before it are as they
\* were; a call that threw gives the fallback to every id of its chunk and
\* does not end the run; a call that answered gives every id that has an
\* entry of its own the score and the descent flag of that entry
C6_FailedChunkIsIsolated ==
    lastCall # NoCall =>
        /\ allDecisions = lastCall.before \o lastCall.decisions
        /\ tpc \in {"pause", "chunk", "process"}
        /\ (lastCall.outcome # NoCall /\ lastCall.outcome.threw) =>
              \A i \in DOMAIN lastCall.nodeIds :
                  /\ lastCall.decisions[i].nodeId = lastCall.nodeIds[i]
                  /\ ~lastCall.decisions[i].visited
                  /\ lastCall.decisions[i].relevanceScore = 0
        /\ (lastCall.outcome # NoCall /\ ~lastCall.outcome.threw) =>
              \A i \in DOMAIN lastCall.nodeIds :
                  \A e \in DOMAIN lastCall.outcome.evaluations :
                      (/\ lastCall.outcome.evaluations[e].nodeId = lastCall.nodeIds[i]
                       /\ \A f \in 1..(e - 1) :
                             lastCall.outcome.evaluations[f].nodeId # lastCall.nodeIds[i])
                      => /\ lastCall.decisions[i].relevanceScore
                               = lastCall.outcome.evaluations[e].relevanceScore
                         /\ lastCall.decisions[i].visited
                               = lastCall.outcome.evaluations[e].shouldExploreChildren

\* the call for the first chunk of a level threw, the call for the second
\* answered, and the level goes on to be processed
C6_Witness ==
    /\ tpc = "process"
    /\ Len(chunks) = 2
    /\ lastCall # NoCall
    /\ lastCall.chunk = 2
    /\ lastCall.outcome # NoCall
    /\ ~lastCall.outcome.threw
    /\ \A i \in DOMAIN chunks[1] :
          allDecisions[i].reasoning = "Error during batch evaluation"
    /\ \A i \in DOMAIN lastCall.decisions :
          /\ lastCall.decisions[i].reasoning = "oracle"
          /\ lastCall.decisions[i].relevanceScore > 0

\* C7: no entry of a response is assigned to two requested ids of the chunk
C7_EntryConsumedAtMostOnce ==
    lastCall # NoCall =>
        \A i, j \in DOMAIN lastCall.mapping :
            (/\ lastCall.mapping[i].index # 0
             /\ lastCall.mapping[i].index = lastCall.mapping[j].index) => i = j

\* C14: every decision of a run, every decision of the level being evaluated
\* and every entry of the queue has a depth in 0..maxDepth-1
C14_DepthBelowMaxDepth ==
    documentTree # NoTree =>
        /\ \A i \in DOMAIN decisions : decisions[i].depth \in 0..(maxDepth - 1)
        /\ \A i \in DOMAIN allDecisions : allDecisions[i].depth \in 0..(maxDepth - 1)
        /\ \A k \in DOMAIN queue : queue[k].depth \in 0..(maxDepth - 1)

\* a run has returned in which a node at depth maxDepth-1 was decided with
\* visited = TRUE and has a child that got no decision
C14_Witness ==
    /\ tpc = "returned"
    /\ queue = <<>>
    /\ \E i \in DOMAIN decisions :
          /\ decisions[i].depth = maxDepth - 1
          /\ decisions[i].visited
          /\ inTree(decisions[i].nodeId)
          /\ \E c \in Range(documentTree.nodes[decisions[i].nodeId].children) :
                \A k \in DOMAIN decisions : decisions[k].nodeId # c

\* the ids of the decisions of one depth, in the order of the traversal path
idsDecidedAt(depth) ==
    LET at == SelectSeq(decisions, LAMBDA d : d.depth = depth)
    IN  [k \in DOMAIN at |-> at[k].nodeId]

RECURSIVE concat(_)
concat(seqs) == IF seqs = <<>> THEN <<>> ELSE Head(seqs) \o concat(Tail(seqs))

\* C15: the traversal path is in non-decreasing depth; its ids of depth 0
\* are the roots in rootNodes order and its ids of depth d+1 are the children
\* asked for by the decisions of depth d, parent by parent in decision order
\* and child by child in children order; the chunks of a level, put end to
\* end, are the ids of the level in that order
C15_DecisionsInSubmissionOrder ==
    documentTree # NoTree =>
        /\ \A i, j \in DOMAIN decisions :
              i < j => decisions[i].depth <= decisions[j].depth
        /\ \A d \in 0..(currentDepth - 1) :
              idsDecidedAt(d) = IF d = 0
                                THEN documentTree.rootNodes
                                ELSE childrenAskedFrom(1, d - 1)
        /\ tpc \in {"chunk", "pause", "process"} => concat(chunks) = levelIds

\* a run has returned with decisions at three depths, two of them at depth 1
C15_Witness ==
    /\ tpc = "returned"
    /\ Len(idsDecidedAt(0)) = 1
    /\ Len(idsDecidedAt(1)) = 2
    /\ Len(idsDecidedAt(2)) = 1
    /\ idsDecidedAt(1) = documentTree.nodes[idsDecidedAt(0)[1]].children

\* the level loop of the run is over
runEnded == tpc \in {"final", "returned", "threw"}

\* C16: when the level loop is over the queue is empty, and every child of a
\* node decided with visited = TRUE above the last depth has a decision at a
\* later depth or had one before its parent's
C16_ChildrenOfVisitedAreDecided ==
    runEnded =>
        /\ queue = <<>>
        /\ \A i \in DOMAIN decisions :
              (/\ decisions[i].visited
               /\ decisions[i].depth + 1 < maxDepth
               /\ inTree(decisions[i].nodeId))
              => \A c \in Range(documentTree.nodes[decisions[i].nodeId].children) :
                    \/ c \in decidedBefore(i)
                    \/ \E j \in DOMAIN decisions :
                          /\ decisions[j].nodeId = c
                          /\ decisions[j].depth > decisions[i].depth

\* a run has returned in which a node decided with visited = TRUE has one
\* child that was decided before it and one that was decided after it
C16_Witness ==
    /\ tpc = "returned"
    /\ \E i \in DOMAIN decisions :
          /\ decisions[i].visited
          /\ decisions[i].depth + 1 < maxDepth
          /\ inTree(decisions[i].nodeId)
          /\ \E b, c \in Range(documentTree.nodes[decisions[i].nodeId].children) :
                /\ b \in decidedBefore(i)
                /\ c \notin decidedBefore(i)
                /\ \E j \in DOMAIN decisions :
                      decisions[j].nodeId = c /\ decisions[j].depth > decisions[i].depth

\* some node decided at the depth with visited = TRUE lists the id as a child
hasVisitedParentAt(nodeId, depth) ==
    \E i \in DOMAIN decisions :
        /\ decisions[i].depth = depth
        /\ decisions[i].visited
        /\ inTree(decisions[i].nodeId)
        /\ nodeId \in Range(documentTree.nodes[decisions[i].nodeId].children)

\* C17: every id decided, being evaluated or queued at a depth below the
\* roots is a child of a node decided with visited = TRUE at the depth
\* before
C17_DescentOnlyThroughVisited ==
    documentTree # NoTree =>
        /\ \A j \in DOMAIN decisions :
              decisions[j].depth > 0 =>
                  hasVisitedParentAt(decisions[j].nodeId, decisions[j].depth - 1)
        /\ \A j \in DOMAIN allDecisions :
              allDecisions[j].depth > 0 =>
                  hasVisitedParentAt(allDecisions[j].nodeId, allDecisions[j].depth - 1)
        /\ \A k \in DOMAIN queue :
              queue[k].depth > 0 =>
                  hasVisitedParentAt(queue[k].nodeId, queue[k].depth - 1)

\* a run has returned in which a node below the root was decided, got the
\* fallback of a failed oracle call, and none of its children was decided
C17_Witness ==
    /\ tpc = "returned"
    /\ \E i \in DOMAIN decisions :
          /\ decisions[i].depth > 0
          /\ ~decisions[i].visited
          /\ decisions[i].reasoning = "Error during batch evaluation"
          /\ decisions[i].depth + 1 < maxDepth
          /\ inTree(decisions[i].nodeId)
          /\ documentTree.nodes[decisions[i].nodeId].children # <<>>
          /\ \A c \in Range(documentTree.nodes[decisions[i].nodeId].children) :
                \A k \in DOMAIN decisions : decisions[k].nodeId # c

\* the number of chunks for a level of n ids
chunkCount(n) ==
    IF n > MAX_BATCH_SIZE THEN (n + MAX_BATCH_SIZE - 1) \div MAX_BATCH_SIZE ELSE 1

\* C18: the ids of a level are cut into ceil(n/5) consecutive blocks of at
\* most 5 ids (one block when n <= 5), every block is evaluated with one
\* oracle call that receives the ids of the block, and the decisions of the
\* level are in the order of its ids
C18_OneOracleCallPerBlock ==
    /\ tpc \in {"chunk", "pause", "process"} =>
          /\ Len(chunks) = chunkCount(Len(levelIds))
          /\ \A k \in DOMAIN chunks :
                chunks[k] = SubSeq(levelIds, MAX_BATCH_SIZE * (k - 1) + 1,
                                   Min2(MAX_BATCH_SIZE * k, Len(levelIds)))
    /\ lastCall # NoCall =>
          /\ lastCall.nodeIds = chunks[lastCall.chunk]
          /\ lastCall.outcome # NoCall
          /\ lastCall.sent = lastCall.nodeIds
    /\ tpc = "process" =>
          [i \in DOMAIN allDecisions |-> allDecisions[i].nodeId] = levelIds

\* C19: a run that has begun comes to the end of traverseDocument; it never
\* is at a depth beyond maxDepth, evaluates a level only when the depth is
\* below maxDepth and the level is not empty, calls the recommendation
\* oracle when the depth limit or an empty level is reached, and after that
\* call evaluates nothing and does not call it again
C19_RunTerminates ==
    /\ (tpc = "level") ~> (tpc \in {"returned", "threw"})
    /\ [](documentTree # NoTree =>
            /\ currentDepth <= maxDepth
            /\ tpc \in {"chunk", "pause", "process"} =>
                  (currentDepth < maxDepth /\ levelIds # <<>>)
            /\ tpc = "final" => (currentDepth = maxDepth \/ levelIds = <<>>))
    /\ [][ /\ tpc = "final" => tpc' \in {"returned", "threw"}
           /\ tpc \in {"returned", "threw"} => tpc' \in {tpc, "none"} ]_vars

\* a run on the tree whose node lists itself as a child has ended at an
\* empty level, with that node decided twice
C19_Witness ==
    /\ tpc = "returned"
    /\ currentDepth < maxDepth
    /\ queue = <<>>
    /\ \E i, j \in DOMAIN decisions :
          /\ i # j
          /\ decisions[i].nodeId = decisions[j].nodeId
          /\ decisions[i].nodeId \in Range(documentTree.nodes[decisions[i].nodeId].children)

\* the places (parent, position) at which an id is listed as a child
listings(tree, nodeId) ==
    { pk \in UNION { {<<p, k>> : k \in DOMAIN tree.nodes[p].children} : p \in DOMAIN tree.nodes } :
          tree.nodes[pk[1]].children[pk[2]] = nodeId }

\* the nodes reached from a set of nodes in at most n steps along children
RECURSIVE reachedFrom(_, _, _)
reachedFrom(S, tree, n) ==
    IF n = 0
    THEN S
    ELSE reachedFrom(S \cup { c \in DOMAIN tree.nodes :
                                 \E p \in S : c \in Range(tree.nodes[p].children) },
                     tree, n - 1)

\* I3: no root is listed as a child, every other node is listed exactly
\* once, no root is named twice, and every node is reached from a root
isForest(tree) ==
    LET roots == Range(tree.rootNodes)
    IN  /\ \A i, j \in DOMAIN tree.rootNodes : tree.rootNodes[i] = tree.rootNodes[j] => i = j
        /\ \A id \in DOMAIN tree.nodes :
              Cardinality(listings(tree, id)) = IF id \in roots THEN 0 ELSE 1
        /\ reachedFrom(roots \cap DOMAIN tree.nodes, tree, Cardinality(DOMAIN tree.nodes))
              = DOMAIN tree.nodes

\* C20: a tree that validateDocumentTree accepts is a forest in which every
\* node but the roots has exactly one parent
C20_AcceptedTreesAreForests ==
    (cachedDocumentTree # NoTree /\ validateDocumentTree(cachedDocumentTree))
        => isForest(cachedDocumentTree)

\* a call of evaluateBatchChunk whose oracle call returned a response
answered == lastCall # NoCall /\ lastCall.outcome # NoCall /\ ~lastCall.outcome.threw

\* the received entry names the requested id, or a strategy accepts it
accepts(nodeId, nodeEvaluation) ==
    \/ nodeEvaluation.nodeId = nodeId
    \/ matchesNumberPrefix(nodeId, nodeEvaluation.nodeId)
    \/ matchesKeyPhrases(nodeId, nodeEvaluation.nodeId, extractNodeIdPatterns(nodeId))
    \/ matchesFuzzyString(nodeId, nodeEvaluation.nodeId)

\* C25: a requested id that no received entry is accepted for gets the
\* fallback decision "Could not map to batch evaluation response", and every
\* other requested id of the chunk that an entry was mapped to gets the
\* decision built from that entry
C25_UnmappedIdFallsBackAlone ==
    answered =>
        LET received == lastCall.outcome.evaluations
        IN  \A i \in DOMAIN lastCall.nodeIds :
                /\ (\A k \in DOMAIN received : ~accepts(lastCall.nodeIds[i], received[k]))
                      => lastCall.decisions[i] =
                            fallbackDecision(lastCall.nodeIds[i],
                                "Could not map to batch evaluation response",
                                lastCall.decisions[i].depth)
                /\ lastCall.mapping[i].index # 0
                      => /\ accepts(lastCall.nodeIds[i], received[lastCall.mapping[i].index])
                         /\ lastCall.decisions[i] =
                               mappedDecision(lastCall.nodeIds[i],
                                   received[lastCall.mapping[i].index],
                                   lastCall.decisions[i].depth)

\* a chunk of two ids: nothing received is accepted for the first, which has
\* the fallback decision, and the second has the decision of its own entry
C25_Witness ==
    /\ answered
    /\ Len(lastCall.nodeIds) >= 2
    /\ \A k \in DOMAIN lastCall.outcome.evaluations :
          ~accepts(lastCall.nodeIds[1], lastCall.outcome.evaluations[k])
    /\ lastCall.decisions[1].reasoning = "Could not map to batch evaluation response"
    /\ lastCall.mapping[2].strategy = "exact"
    /\ lastCall.decisions[2].reasoning = "oracle"
    /\ lastCall.decisions[2].visited

\* the place in the cascade of the first strategy that accepts the received
\* id for the requested one: exact, number-prefix, key-phrase, fuzzy, none
strategyRank(nodeId, receivedNodeId) ==
    IF receivedNodeId = nodeId THEN 0
    ELSE IF matchesNumberPrefix(nodeId, receivedNodeId) THEN 1
    ELSE IF matchesKeyPhrases(nodeId, receivedNodeId, extractNodeIdPatterns(nodeId)) THEN 2
    ELSE IF matchesFuzzyString(nodeId, receivedNodeId) THEN 3
    ELSE 4

\* the entries consumed for the requested ids before the i-th
consumedBefore(i) ==
    { lastCall.mapping[j].index :
          j \in { x \in 1..(i - 1) : lastCall.mapping[x].strategy \notin {"exact", "none"} } }

\* C26: the entry mapped to a requested id is accepted by a strategy that is
\* not later in the cascade than the strategy that accepts any other entry
\* not yet consumed
C26_EarlierStrategyWins ==
    answered =>
        LET received == lastCall.outcome.evaluations
        IN  \A i \in DOMAIN lastCall.nodeIds :
                lastCall.mapping[i].index # 0 =>
                    \A k \in DOMAIN received \ consumedBefore(i) :
                        strategyRank(lastCall.nodeIds[i], received[k].nodeId) >=
                            strategyRank(lastCall.nodeIds[i],
                                         received[lastCall.mapping[i].index].nodeId)

\* C27: the chunk calls of a level are made one after the other: the call
\* for chunk 1 follows the begin of the level, the call for chunk k + 1
\* follows the wait that follows the return of the call for chunk k, and
\* that wait follows every call but the last of the level
C27_ChunkCallsAreSequential ==
    [][ /\ tpc' = "chunk" =>
              \/ tpc = "chunk" /\ chunkIdx' = chunkIdx
              \/ tpc = "level" /\ chunkIdx' = 1
              \/ /\ tpc = "pause"
                 /\ chunkIdx' = chunkIdx + 1
                 /\ lastCall # NoCall
                 /\ lastCall.chunk = chunkIdx
        /\ lastCall' # lastCall /\ lastCall' # NoCall =>
              /\ tpc = "chunk"
              /\ lastCall'.chunk = chunkIdx
              /\ lastCall'.nodeIds = chunks[chunkIdx]
              /\ chunkIdx > 1 => (lastCall # NoCall /\ lastCall.chunk = chunkIdx - 1)
              /\ tpc' = IF chunkIdx < Len(chunks) THEN "pause" ELSE "process"
        /\ tpc = "pause" => tpc' \in {"pause", "chunk"} ]_vars

\* the call for the second chunk of a level has returned
C27_Witness ==
    /\ tpc = "process"
    /\ Len(chunks) = 2
    /\ lastCall # NoCall
    /\ lastCall.chunk = 2
    /\ lastCall.outcome # NoCall

\* C28: the entry mapped to a requested id does not name another requested
\* id of the chunk
C28_NoEntryOfAnotherRequestedId ==
    answered =>
        \A i, j \in DOMAIN lastCall.nodeIds :
            (i # j /\ lastCall.mapping[i].index # 0) =>
                lastCall.outcome.evaluations[lastCall.mapping[i].index].nodeId
                    # lastCall.nodeIds[j]

\* the key words of the requested id that overlap a key word of the received id
overlapping(expectedNodeId, receivedNodeId) ==
    { w \in DOMAIN extractNodeIdPatterns(expectedNodeId).keyWords :
        \E r \in DOMAIN extractNodeIdPatterns(receivedNodeId).keyWords :
            \/ includes(extractNodeIdPatterns(receivedNodeId).keyWords[r],
                        extractNodeIdPatterns(expectedNodeId).keyWords[w])
            \/ includes(extractNodeIdPatterns(expectedNodeId).keyWords[w],
                        extractNodeIdPatterns(receivedNodeId).keyWords[r])
            \/ levenshteinDistance(extractNodeIdPatterns(expectedNodeId).keyWords[w],
                                   extractNodeIdPatterns(receivedNodeId).keyWords[r]) <= 1 }

\* C29: an entry is mapped to a requested id by the key-phrase strategy only
\* when the overlapping key words of the requested id are two at least and
\* half of its key words at least
C29_KeyPhraseNeedsTwoWords ==
    answered =>
        \A i \in DOMAIN lastCall.nodeIds :
            lastCall.mapping[i].strategy = "phrase" =>
                /\ Cardinality(overlapping(lastCall.nodeIds[i],
                       lastCall.outcome.evaluations[lastCall.mapping[i].index].nodeId)) >= 2
                /\ 2 * Cardinality(overlapping(lastCall.nodeIds[i],
                       lastCall.outcome.evaluations[lastCall.mapping[i].index].nodeId))
                       >= Len(extractNodeIdPatterns(lastCall.nodeIds[i]).keyWords)

\* ------------------------------------------------------------------------
\* Properties of the traverse route (SpecRoute)
\* ------------------------------------------------------------------------

\* C8: a traversal only ever runs on a tree that validateDocumentTree accepts
C8_TraversalOnlyOnValidatedTree ==
    documentTree # NoTree => validateDocumentTree(documentTree)

\* C9: a fetch between two requests returns the result of the run whose
\* store call returned last, or null when that call failed to write
C9_FetchReturnsLastCommitted ==
    (lastGet # NoGet /\ lastGet.committed # <<>>) =>
        LET last == lastGet.committed[Len(lastGet.committed)]
        IN  \/ lastGet.value = Result(last.run)
            \/ ~last.ok /\ lastGet.value = Null

\* ------------------------------------------------------------------------
\* Properties of the result store under overlapping requests (SpecStore)
\* ------------------------------------------------------------------------

\* the runs of the history: those whose store call has returned
storedRuns(log) == { log[k].run : k \in { n \in DOMAIN log : log[n].run # 0 } }

\* the history is that of store calls that all wrote the file
allWritten(log) == \A k \in DOMAIN log : log[k].ok /\ log[k].run # 0

\* C10: a fetch during a store call, with no clearing under way, returns the complete result of a run
\* that was stored before or of one being stored (null only when no call has
\* written the file every time so far), and when all store calls have
\* returned the file holds the result of the one that returned last
C10_StoreWritesAreAtomic ==
    /\ (lastGet # NoGet /\ lastGet.inFlight # {} /\ ~lastGet.clearing) =>
          \/ lastGet.value \in { Result(r) : r \in lastGet.inFlight }
          \/ lastGet.value \in { Result(r) : r \in storedRuns(lastGet.committed) }
          \/ /\ lastGet.value = Null
             /\ \/ lastGet.committed = <<>>
                \/ ~allWritten(lastGet.committed)
    /\ (/\ inFlight = {}
        /\ cpc = "idle"
        /\ committed # <<>>
        /\ allWritten(committed)) =>
          /\ file.exists
          /\ file.content = [k \in 1..FileChunks |-> committed[Len(committed)].run]

C12_FailedRequestLeavesStore ==
    [][ /\ (rpc # "store" /\ rpc' # "store") => (file' = file /\ mem' = mem)
        /\ rpc' = "store" => (tpc' = "returned" /\ response' = NoResponse)
        /\ (rpc = "store" /\ rpc' # "store") => response'.status = 200
        /\ (reqCount' # reqCount /\ response'.status = 400) =>
              (tpc' = "none" /\ lastCall' = NoCall /\ decisions' = <<>>) ]_vars

\* a request has been answered 500 after an earlier one stored its result
C12_Witness ==
    /\ rpc = "idle"
    /\ response.status = 500
    /\ reqCount = 2
    /\ runs = 2
    /\ file = [exists |-> TRUE, content |-> [k \in 1..FileChunks |-> 1]]
    /\ getLatestTraversalResult(file, mem) = {Result(1)}

\* C13: once a request has called setLatestTraversalResult, whatever the
\* write does, the result of the run stays as it is and the request ends in
\* no other way than by answering 200 with that result
C13_StoreFailureKeepsLiveReturn ==
    [][ rpc = "store" =>
          IF rpc' = "store"
          THEN /\ UNCHANGED <<decisions, relevantNodes, tpc>>
               /\ wpc'[1] \in {"open", "write", "done"}
          ELSE /\ rpc' = "idle"
               /\ response' = [status |-> 200, run |-> reqCount,
                               traversalPath |-> decisions,
                               relevantNodes |-> relevantNodes] ]_vars

\* a request whose store call failed to write has been answered with the
\* decisions and the relevant nodes of its run
C13_Witness ==
    /\ rpc = "idle"
    /\ response.status = 200
    /\ response.run = reqCount
    /\ response.traversalPath # <<>>
    /\ response.relevantNodes # <<>>
    /\ committed # <<>>
    /\ committed[Len(committed)] = [run |-> reqCount, ok |-> FALSE]

\* ------------------------------------------------------------------------
\* Properties of the document transformer (SpecLoad)
\* ------------------------------------------------------------------------

\* the tree made of the raw document, once loadDocumentTree has made it
transformed == cachedDocumentTree # NoTree

noIdTwice(ids) == \A i, j \in DOMAIN ids : ids[i] = ids[j] => i = j

\* C21: a flat array becomes as many nodes as it has entries, each entry's
\* content is the content of a node, and rootNodes names no id twice, also
\* when two entries share an id
C21_FlatArrayKeepsEveryEntry ==
    (transformed /\ "array" \in DOMAIN doc) =>
        /\ Cardinality(DOMAIN cachedDocumentTree.nodes) = Len(doc.array)
        /\ \A k \in DOMAIN doc.array :
              \E id \in DOMAIN cachedDocumentTree.nodes :
                  cachedDocumentTree.nodes[id].content = doc.array[k].content
        /\ noIdTwice(cachedDocumentTree.rootNodes)

root_sections(rawData) ==
    rawData.agent_results.structure_discovery.structure_analysis
           .document_structure.root_sections

directChildren(section) ==
    IF "children" \in DOMAIN section THEN section.children ELSE <<>>

\* the places (section, child) of the direct children of the root sections
childPlaces(sections) ==
    UNION { { <<k, c>> : c \in DOMAIN directChildren(sections[k]) } : k \in DOMAIN sections }

\* id is the base id, or the base id with a suffix _k, k >= 2
baseOrSuffixed(id, base, most) ==
    \/ id = base
    \/ \E k \in 2..most : id = base \o <<"_">> \o toString(k)

\* the times an id is named, as a root or as a child
timesNamed(tree, id) ==
    Cardinality(listings(tree, id))
        + Cardinality({ k \in DOMAIN tree.rootNodes : tree.rootNodes[k] = id })

\* C22: an agent-results document becomes one node per root section and one
\* per direct child, in the order of the document; a node's id is its base
\* id, or the base id with a suffix _k (k >= 2) when the base id is taken;
\* every id is the id of one node only and every id named in rootNodes or in
\* a children list is the id of a node and is named once; two root sections
\* p_1 without children become p_1 and p_1_2
C22_AgentResultsGetUniqueIds ==
    (transformed /\ "agent_results" \in DOMAIN doc) =>
        LET sections == root_sections(doc)
            tree == cachedDocumentTree
            count == Len(sections) + Cardinality(childPlaces(sections))
        IN  /\ Cardinality(DOMAIN tree.nodes) = count
            /\ Len(tree.rootNodes) = Len(sections)
            /\ \A id \in DOMAIN tree.nodes :
                  /\ tree.nodes[id].id = id
                  /\ timesNamed(tree, id) = 1
            /\ \A k \in DOMAIN sections :
                  LET nodeId == tree.rootNodes[k]
                  IN  /\ nodeId \in DOMAIN tree.nodes
                      /\ baseOrSuffixed(nodeId, baseNodeId(sections[k], k - 1), count + 1)
                      /\ tree.nodes[nodeId].content = sections[k].text_content
                      /\ Len(tree.nodes[nodeId].children) = Len(directChildren(sections[k]))
                      /\ \A c \in DOMAIN directChildren(sections[k]) :
                            LET childId == tree.nodes[nodeId].children[c]
                                child == directChildren(sections[k])[c]
                            IN  /\ childId \in DOMAIN tree.nodes
                                /\ baseOrSuffixed(childId, baseChildId(child, nodeId, c - 1),
                                                  count + 1)
                                /\ tree.nodes[childId].content = child.text_content
            /\ (/\ Len(sections) = 2
                /\ childPlaces(sections) = {}
                /\ \A k \in DOMAIN sections :
                      "id" \in DOMAIN sections[k] /\ sections[k].id = idP)
                   => tree.rootNodes = <<idP, idP2>>

\* two root sections named p_1, the first with the children p_1_2 and p_1:
\* the nodes are p_1, p_1_2, p_1_3 and p_1_4
C22_Witness ==
    /\ transformed
    /\ "agent_results" \in DOMAIN doc
    /\ Len(root_sections(doc)) = 2
    /\ cachedDocumentTree.rootNodes = <<idP, idP \o <<"_","4">>>>
    /\ cachedDocumentTree.nodes[idP].children = <<idP2, idP \o <<"_","3">>>>

isCanonical(rawData) == "nodes" \in DOMAIN rawData /\ "rootNodes" \in DOMAIN rawData

\* C23: a raw document that has nodes and rootNodes is returned as it is,
\* and transforming a tree that transformRawDocument returned returns that
\* tree
C23_CanonicalIsPassedThrough ==
    transformed =>
        /\ isCanonical(doc) => cachedDocumentTree = doc
        /\ isCanonical(cachedDocumentTree)
        /\ transformRawDocument(cachedDocumentTree) = cachedDocumentTree

\* a canonical tree that the validator rejects has been passed through too
C23_Witness ==
    /\ transformed
    /\ isCanonical(doc)
    /\ doc.rootNodes # <<>>
    /\ ~validateDocumentTree(doc)
    /\ cachedDocumentTree = doc

\* ------------------------------------------------------------------------
\* Properties of repeated runs (SpecTwice)
\* ------------------------------------------------------------------------

\* C24: two runs on the same tree with the same maxDepth and a deterministic
\* oracle return the same traversalPath and the same relevantNodes, and a run
\* starts from the roots with nothing decided and nothing visited
C24_SameInputsSameResult ==
    /\ \A i, j \in DOMAIN kept.results :
          kept.results[i].maxDepth = kept.results[j].maxDepth =>
              /\ kept.results[i].traversalPath = kept.results[j].traversalPath
              /\ kept.results[i].relevantNodes = kept.results[j].relevantNodes
    /\ (tpc = "level" /\ currentDepth = 0) =>
          /\ decisions = <<>>
          /\ visitedNodes = {}
          /\ relevantNodes = <<>>
          /\ queue = [k \in DOMAIN documentTree.rootNodes |->
                         [nodeId |-> documentTree.rootNodes[k], depth |-> 0]]

\* two runs with the same maxDepth have returned, with a node decided below
\* the roots and a node left without an evaluation
C24_Witness ==
    /\ Len(kept.results) = 2
    /\ kept.results[1].maxDepth = kept.results[2].maxDepth
    /\ \E k \in DOMAIN kept.results[2].traversalPath :
          kept.results[2].traversalPath[k].depth > 0
    /\ \E k \in DOMAIN kept.results[2].traversalPath :
          ~kept.results[2].traversalPath[k].visited
    /\ kept.results[2].relevantNodes # <<>>

\* ------------------------------------------------------------------------
\* Properties of the node context (SpecContext)
\* ------------------------------------------------------------------------

\* the items that a joined text lists, mark being the separator's first character
listed(text, mark) ==
    IF text = <<>> THEN 0 ELSE 1 + Cardinality({ i \in DOMAIN text : text[i] = mark })

sentNode(k) == documentTree.nodes[lastCall.sent[k]]

\* C30: the context of a parent node lists three main_themes and three
\* key_points at most, and the context of a leaf node is its title and the
\* leaf type only
C30_ContextIsBounded ==
    lastCall # NoCall =>
        \A k \in DOMAIN lastCall.contexts :
            IF sentNode(k).children # <<>>
            THEN \A p \in DOMAIN lastCall.contexts[k] :
                    /\ lastCall.contexts[k][p].label = "Main themes"
                          => listed(lastCall.contexts[k][p].text, ",") <= 3
                    /\ lastCall.contexts[k][p].label = "Key points"
                          => listed(lastCall.contexts[k][p].text, ";") <= 3
            ELSE /\ Len(lastCall.contexts[k]) = 2
                 /\ lastCall.contexts[k][1] = [label |-> "Title", text |-> titleOf(sentNode(k))]
                 /\ lastCall.contexts[k][2].label = "Type"
                 /\ lastCall.contexts[k][2].text = LeafType

====
